---- MODULE Spec2Model ----
(***************************************************************************)
(* Verification model of the YouTube extractor: the checkpointed           *)
(* process_video pipeline (core/extractor.py, core/recovery.py) and the    *)
(* persistent processing queue with its drains (utils/queue_manager.py,    *)
(* web_ui.py).                                                             *)
(***************************************************************************)
EXTENDS Integers, Sequences, FiniteSets, TLC

(***************************************************************************)
(* Bounds of the model.                                                    *)
(***************************************************************************)
\* number of process_video calls in one behaviour
MaxRuns == 3
\* number of checkpoint writes that may fail in one behaviour
MaxStateFaults == 2

\* absent value (Python None)
None == "none"

(***************************************************************************)
(* Input domains of the pipeline.                                          *)
(***************************************************************************)
\* URLs handed to process_video: two spellings of video A, one of video B
PVUrls == {"https://www.youtube.com/watch?v=AAAAAAAAAAA",
           "https://youtu.be/AAAAAAAAAAA",
           "https://www.youtube.com/watch?v=BBBBBBBBBBB"}
VideoIds == {"AAAAAAAAAAA", "BBBBBBBBBBB"}
\* metadata records and transcripts the fetches can return
Metas == {"meta1", "meta2"}
Transcripts == {"lines1", "lines2"}
\* why a metadata fetch fails: a cause matched by network_retry or not
FetchCauses == {"network", "permanent"}

(***************************************************************************)
(* State.                                                                  *)
(***************************************************************************)
VARIABLES
    state_file,     \* .processing_state/{video_id}.json, per video id
    notes,          \* output notes written so far (by metadata record)
    pv,             \* the process_video call in progress
    runs,           \* number of process_video calls started
    state_faults    \* number of failed checkpoint writes so far

pvVars == <<state_file, notes, pv, runs, state_faults>>

\* the queue, its files, and the drains in progress
VARIABLES
    items,        \* ProcessingQueue._items
    queue_file,   \* queue.json
    temp_file,    \* queue.tmp
    save_seen,    \* what queue.json held during the last _save
    next_id,      \* the id of the next QueueItem
    fault_budget  \* number of attempts of _save that may still fail

apiVars == <<items, queue_file, temp_file, save_seen, next_id, fault_budget>>

VARIABLES
    mq,           \* the process_queue call in progress
    cq            \* the console's process_queue_with_live_updates in progress

drainVars == <<mq, cq>>

\* the callers of the recovery manager and of the retry decorators
VARIABLES
    rm,           \* per video id: the last RecoveryManager call and its argument
    rt,           \* the call of a retry-decorated function in progress
    rc            \* the configuration of its decorator

unitVars == <<rm, rt, rc>>

\* the command line, the settings, the LLM cache, child processes, threads
VARIABLES
    env,          \* os.environ: the variables the Config properties read
    cli,          \* the process command of the CLI in progress
    lc,           \* the Cache, the LLMProcessor and their calls
    child,        \* the console's child process and the thread that runs it
    am,           \* the last add_multiple call: its lines and what became of each
    ft            \* the fetch_transcript call in progress and what it consulted

sideVars == <<env, cli, lc, child, am, ft>>
qVars == <<items, queue_file, temp_file, save_seen, next_id, fault_budget, mq, cq>>

vars == <<state_file, notes, pv, runs, state_faults,
          items, queue_file, temp_file, save_seen, next_id, fault_budget, mq, cq,
          rm, rt, rc, env, cli, lc, child, am, ft>>

(***************************************************************************)
(* ProcessingState: the checkpoint file.                                   *)
(***************************************************************************)
\* no state file on disk
AbsentState == [kind |-> "absent", step |-> None, data |-> None,
                video_meta |-> None, original_transcript |-> None]
\* a state file whose write stopped midway: it does not parse
CorruptState == [kind |-> "corrupt", step |-> None, data |-> None,
                 video_meta |-> None, original_transcript |-> None]
\* the metadata dict written when none is carried forward
EmptyMetadata == [video_meta |-> None, original_transcript |-> None]

\* outcomes of the write in save_state
WriteOutcomes == {"ok", "not_written", "torn"}

\* ProcessingState.save_state: replace the file; a failed write is swallowed
save_state(f, step, data, metadata, outcome) ==
    CASE outcome = "ok" ->
            [kind |-> "record", step |-> step, data |-> data,
             video_meta |-> metadata.video_meta,
             original_transcript |-> metadata.original_transcript]
      [] outcome = "not_written" -> f
      [] OTHER -> CorruptState

\* ProcessingState.load_state: the parsed record, or None if absent or corrupt
load_state(f) == IF f.kind = "record" THEN f ELSE AbsentState

\* has load_state returned a record
Loaded(s) == s.kind = "record"

\* ProcessingState.clear_state
clear_state(f) == AbsentState

(***************************************************************************)
(* RecoveryManager.                                                        *)
(***************************************************************************)
recovery_steps == <<"metadata_fetched", "transcript_fetched", "chunks_processed",
                    "content_extracted", "markdown_generated">>

\* list.index
StepIndex(step) == CHOOSE i \in 1..Len(recovery_steps) : recovery_steps[i] = step

InRecoverySteps(step) == \E i \in 1..Len(recovery_steps) : recovery_steps[i] = step

\* a comparison that leaves out the saved step itself
can_recover_from_strict(f, step) ==
    LET saved_state == load_state(f) IN
    IF ~Loaded(saved_state) THEN FALSE
    ELSE /\ InRecoverySteps(saved_state.step)
         /\ StepIndex(saved_state.step) > StepIndex(step)

can_recover_from(f, step) ==
    LET saved_state == load_state(f) IN
    IF ~Loaded(saved_state) THEN FALSE
    ELSE /\ InRecoverySteps(saved_state.step)
         /\ StepIndex(saved_state.step) >= StepIndex(step)

recover_metadata(f) ==
    LET saved_state == load_state(f) IN
    IF ~Loaded(saved_state) THEN None
    ELSE IF ~can_recover_from(f, "metadata_fetched") THEN None
    ELSE IF saved_state.step = "metadata_fetched" THEN saved_state.data
    ELSE saved_state.video_meta

recover_transcript(f) ==
    LET saved_state == load_state(f) IN
    IF ~Loaded(saved_state)
       \/ saved_state.step \notin {"transcript_fetched", "chunks_processed"}
    THEN None
    ELSE IF saved_state.step = "transcript_fetched" THEN saved_state.data
    ELSE saved_state.original_transcript

save_metadata(f, metadata, outcome) ==
    save_state(f, "metadata_fetched", metadata, EmptyMetadata, outcome)

save_transcript(f, transcript, outcome) ==
    LET saved_state == load_state(f)
        existing_metadata ==
            IF Loaded(saved_state) /\ saved_state.step = "metadata_fetched"
            THEN [EmptyMetadata EXCEPT !.video_meta = saved_state.data]
            ELSE EmptyMetadata
    IN save_state(f, "transcript_fetched", transcript, existing_metadata, outcome)

recover_extracted_content(f) ==
    LET saved_state == load_state(f) IN
    IF ~Loaded(saved_state) \/ saved_state.step # "content_extracted" THEN None
    ELSE saved_state.data

\* the transcript is the concatenation of the chunks; no video_meta is written
save_chunks_processed(f, transcript, partials, outcome) ==
    save_state(f, "chunks_processed", partials,
               [EmptyMetadata EXCEPT !.original_transcript = transcript], outcome)

save_extracted_content(f, content, outcome) ==
    LET saved_state == load_state(f)
        existing_metadata ==
            IF ~Loaded(saved_state) THEN EmptyMetadata
            ELSE IF saved_state.step = "metadata_fetched"
            THEN [EmptyMetadata EXCEPT !.video_meta = saved_state.data]
            ELSE IF saved_state.step \in {"transcript_fetched", "chunks_processed"}
            THEN [video_meta |-> saved_state.video_meta,
                  original_transcript |-> saved_state.original_transcript]
            ELSE EmptyMetadata
    IN save_state(f, "content_extracted", content, existing_metadata, outcome)

\* a completion that leaves the state file behind
complete_processing_keeps(f) == f

complete_processing(f) == clear_state(f)

(***************************************************************************)
(* SafeProcessor.safe_execute.                                             *)
(***************************************************************************)
\* the recover_<operation_name> method of RecoveryManager, if there is one
HasRecoveryMethod(operation_name) ==
    operation_name \in {"metadata", "transcript", "extracted_content"}

RecoveryMethod(operation_name, f) ==
    CASE operation_name = "metadata" -> recover_metadata(f)
      [] operation_name = "transcript" -> recover_transcript(f)
      [] operation_name = "extracted_content" -> recover_extracted_content(f)
      [] OTHER -> None

\* result: the value of the operation, the recovered value, or the domain
\* error raised in place of the operation's own error
\* a wrapper that falls back on the extracted content for any operation
safe_execute_recovers_content(operation_name, result, f) ==
    IF result.ok
    THEN [ok |-> TRUE, value |-> result.value, error |-> None, operation |-> None]
    ELSE LET recovered == IF HasRecoveryMethod(operation_name)
                          THEN RecoveryMethod(operation_name, f)
                          ELSE recover_extracted_content(f)
         IN IF recovered # None
            THEN [ok |-> TRUE, value |-> recovered, error |-> None, operation |-> None]
            ELSE [ok |-> FALSE, value |-> None, error |-> "YouTubeExtractorError",
                  operation |-> operation_name]

\* operation: the operation name the raised error's message starts with
safe_execute(operation_name, result, f) ==
    IF result.ok
    THEN [ok |-> TRUE, value |-> result.value, error |-> None, operation |-> None]
    ELSE LET recovered == IF HasRecoveryMethod(operation_name)
                          THEN RecoveryMethod(operation_name, f)
                          ELSE None
         IN IF recovered # None
            THEN [ok |-> TRUE, value |-> recovered, error |-> None, operation |-> None]
            ELSE [ok |-> FALSE, value |-> None, error |-> "YouTubeExtractorError",
                  operation |-> operation_name]

(***************************************************************************)
(* YouTubeExtractor.                                                       *)
(***************************************************************************)
\* _extract_video_id: the 11 characters after watch?v= or youtu.be/
_extract_video_id(url) ==
    CASE url = "https://www.youtube.com/watch?v=AAAAAAAAAAA" -> "AAAAAAAAAAA"
      [] url = "https://youtu.be/AAAAAAAAAAA" -> "AAAAAAAAAAA"
      [] OTHER -> "BBBBBBBBBBB"

\* fetch_metadata under network_retry: a failure matched by the retry
\* conditions ends as retry-exhausted, any other as video-not-found
fetch_metadata_error(cause) ==
    IF cause = "network" THEN "RetryError" ELSE "VideoNotFoundError"

Ok(v) == [ok |-> TRUE, value |-> v, error |-> None]
Err(e) == [ok |-> FALSE, value |-> None, error |-> e]

MetadataResults == {Ok(m) : m \in Metas} \cup {Err(fetch_metadata_error(c)) : c \in FetchCauses}
TranscriptResults == {Ok(t) : t \in Transcripts} \cup {Err("TranscriptUnavailableError")}
LlmResults == {Ok("markdown"), Err("LLMProcessingError")}

IdlePV == [pc |-> "idle", url |-> None, video_id |-> None, meta |-> None,
           transcript |-> None, error |-> None, stage |-> None,
           start_step |-> None, fetched |-> None]

\* an except clause that cleans up as the success path does
on_failure_clears(f) == clear_state(f)

\* the except clause of process_video: the state file is not touched
on_failure(f) == f

\* the write of a checkpoint may fail while the fault budget lasts
SaveOutcomes == IF state_faults < MaxStateFaults THEN WriteOutcomes ELSE {"ok"}

Faulted(outcome) == IF outcome = "ok" THEN 0 ELSE 1

\* process_video, lines 36-37: derive the id, build the SafeProcessor
process_video_start(url) ==
    /\ pv.pc \in {"idle", "done", "failed"}
    /\ runs < MaxRuns
    /\ runs' = runs + 1
    /\ pv' = [IdlePV EXCEPT !.pc = "metadata", !.url = url,
                            !.video_id = _extract_video_id(url),
                            !.start_step = load_state(state_file[_extract_video_id(url)]).step]
    /\ UNCHANGED <<state_file, notes, state_faults>>
    /\ UNCHANGED <<qVars, unitVars, sideVars>>

\* process_video, lines 41-46: metadata stage and its checkpoint
process_video_metadata(result, outcome) ==
    /\ pv.pc = "metadata"
    /\ LET f == state_file[pv.video_id]
           r == safe_execute("metadata", result, f)
       IN IF r.ok
          THEN /\ state_file' = [state_file EXCEPT
                                    ![pv.video_id] = save_metadata(f, r.value, outcome)]
               /\ state_faults' = state_faults + Faulted(outcome)
               /\ pv' = [pv EXCEPT !.pc = "transcript", !.meta = r.value,
                                   !.fetched = result.ok]
          ELSE /\ state_file' = [state_file EXCEPT ![pv.video_id] = on_failure(f)]
               /\ pv' = [pv EXCEPT !.pc = "failed", !.error = r.error,
                                   !.stage = r.operation, !.fetched = FALSE]
               /\ UNCHANGED state_faults
    /\ UNCHANGED <<notes, runs>>
    /\ UNCHANGED <<qVars, unitVars, sideVars>>

\* process_video, lines 49-54: transcript stage and its checkpoint
process_video_transcript(result, outcome) ==
    /\ pv.pc = "transcript"
    /\ LET f == state_file[pv.video_id]
           r == safe_execute("transcript", result, f)
       IN IF r.ok
          THEN /\ state_file' = [state_file EXCEPT
                                    ![pv.video_id] = save_transcript(f, r.value, outcome)]
               /\ state_faults' = state_faults + Faulted(outcome)
               /\ pv' = [pv EXCEPT !.pc = "llm", !.transcript = r.value,
                                   !.fetched = result.ok]
          ELSE /\ state_file' = [state_file EXCEPT ![pv.video_id] = on_failure(f)]
               /\ pv' = [pv EXCEPT !.pc = "failed", !.error = r.error,
                                   !.stage = r.operation, !.fetched = FALSE]
               /\ UNCHANGED state_faults
    /\ UNCHANGED <<notes, runs>>
    /\ UNCHANGED <<qVars, unitVars, sideVars>>

\* process_video, lines 57-62: LLM stage, no checkpoint
process_video_llm(result) ==
    /\ pv.pc = "llm"
    /\ LET f == state_file[pv.video_id]
           r == safe_execute("llm_processing", result, f)
       IN IF r.ok
          THEN /\ pv' = [pv EXCEPT !.pc = "write", !.fetched = result.ok]
               /\ UNCHANGED state_file
          ELSE /\ state_file' = [state_file EXCEPT ![pv.video_id] = on_failure(f)]
               /\ pv' = [pv EXCEPT !.pc = "failed", !.error = r.error,
                                   !.stage = r.operation, !.fetched = FALSE]
    /\ UNCHANGED <<notes, runs, state_faults>>
    /\ UNCHANGED <<qVars, unitVars, sideVars>>

\* process_video, lines 65-77: front matter, output directory, write_text
process_video_write(written) ==
    /\ pv.pc = "write"
    /\ IF written
       THEN /\ notes' = notes \cup {pv.meta}
            /\ pv' = [pv EXCEPT !.pc = "cleanup"]
            /\ UNCHANGED state_file
       ELSE /\ state_file' = [state_file EXCEPT
                                 ![pv.video_id] = on_failure(state_file[pv.video_id])]
            /\ pv' = [pv EXCEPT !.pc = "failed", !.error = "OSError", !.stage = "write"]
            /\ UNCHANGED notes
    /\ UNCHANGED <<runs, state_faults>>
    /\ UNCHANGED <<qVars, unitVars, sideVars>>

\* process_video, lines 80-82: SafeProcessor.cleanup, return the path
process_video_cleanup ==
    /\ pv.pc = "cleanup"
    /\ state_file' = [state_file EXCEPT
                         ![pv.video_id] = complete_processing(state_file[pv.video_id])]
    /\ pv' = [pv EXCEPT !.pc = "done"]
    /\ UNCHANGED <<notes, runs, state_faults>>
    /\ UNCHANGED <<qVars, unitVars, sideVars>>


(***************************************************************************)
(* Queue manager (utils/queue_manager.py).                                 *)
(***************************************************************************)
\* ProcessingQueue(max_size=...): the size limit the queue is built with
max_size == 2
\* number of QueueItems constructed in one behaviour (ids 1..MaxAdds)
MaxAdds == 3
\* number of QueueItems the console adds in a behaviour with drains
MaxDrainAdds == 2
\* number of attempts of _save that may fail in one behaviour
MaxAttemptFaults == 3

MAX_FILE_SAVE_RETRIES == 3

\* QueueStatus members and their values
QueueStatus == {"PENDING", "PROCESSING", "COMPLETED", "FAILED"}

StatusValue(status) ==
    CASE status = "PENDING" -> "pending"
      [] status = "PROCESSING" -> "processing"
      [] status = "COMPLETED" -> "completed"
      [] OTHER -> "failed"

\* QueueStatus(value)
QueueStatusOf(value) ==
    CASE value = "pending" -> "PENDING"
      [] value = "processing" -> "PROCESSING"
      [] value = "completed" -> "COMPLETED"
      [] OTHER -> "FAILED"

\* lines handed to add: a short URL, the same with blanks around it, a watch
\* URL, and an embed URL (which the queue's pattern does not accept)
UrlInputs == {"https://youtu.be/aaa", " https://youtu.be/aaa ",
              "https://www.youtube.com/watch?v=bbb",
              "https://www.youtube.com/embed/ccc"}
CategoryInputs == {None, "../ai"}
ItemIds == 1..MaxAdds
NoId == 0

\* str.strip on the inputs above
Strip(s) ==
    CASE s = " https://youtu.be/aaa " -> "https://youtu.be/aaa"
      [] s = " ai " -> "ai"
      [] OTHER -> s

\* YOUTUBE_URL_PATTERN.match
_validate_youtube_url(url) ==
    url \in {"https://youtu.be/aaa", "https://www.youtube.com/watch?v=bbb"}

\* _sanitize_category: [ok, value]; not ok is the ValueError
_sanitize_category(category) ==
    IF category = None THEN [ok |-> TRUE, value |-> None]
    ELSE IF Strip(category) = "" THEN [ok |-> TRUE, value |-> None]
    ELSE IF Strip(category) = "../ai" THEN [ok |-> FALSE, value |-> None]
    ELSE [ok |-> TRUE, value |-> Strip(category)]

\* QueueItem(url, category) with __post_init__: a fresh id, added_at stamped
QueueItem(id, url, category) ==
    [url |-> url, category |-> category, status |-> "PENDING", title |-> None,
     channel |-> None, error |-> None, output_path |-> None,
     added_at |-> "stamped", processed_at |-> None, id |-> id]

\* QueueItem.to_dict / from_dict
to_dict(item) == [item EXCEPT !.status = StatusValue(item.status)]
from_dict(data) == [data EXCEPT !.status = QueueStatusOf(data.status)]

\* contents of a file on disk
AbsentFile == [kind |-> "absent", items |-> <<>>]
TornFile == [kind |-> "torn", items |-> <<>>]
Document(its) == [kind |-> "doc", items |-> [i \in 1..Len(its) |-> to_dict(its[i])]]

\* ProcessingQueue._load
_load(file) ==
    IF file.kind = "doc" THEN [i \in 1..Len(file.items) |-> from_dict(file.items[i])]
    ELSE <<>>

\* what one attempt of _save does
AttemptFaults == {"ok", "dump_fails", "replace_fails"}

\* a save that writes queue.json in place, without the temp file
save_attempt_in_place(fs, doc, fault) ==
    CASE fault = "dump_fails" -> [file |-> TornFile, temp |-> fs.temp, ok |-> FALSE]
      [] fault = "replace_fails" -> [file |-> doc, temp |-> fs.temp, ok |-> FALSE]
      [] OTHER -> [file |-> doc, temp |-> fs.temp, ok |-> TRUE]

\* one pass of the try block of _save: write the temp file, rename it
save_attempt(fs, doc, fault) ==
    CASE fault = "dump_fails" -> [file |-> fs.file, temp |-> TornFile, ok |-> FALSE]
      [] fault = "replace_fails" -> [file |-> fs.file, temp |-> doc, ok |-> FALSE]
      [] OTHER -> [file |-> doc, temp |-> AbsentFile, ok |-> TRUE]

\* how queue.json looks, relative to the document being saved
Look(file, before, doc) ==
    IF file = doc THEN "new"
    ELSE IF file = before THEN "previous"
    ELSE IF file.kind = "torn" THEN "torn"
    ELSE "other"

RECURSIVE save_from(_, _, _, _, _, _)
save_from(fs, before, doc, plan, attempt, seen) ==
    IF attempt > MAX_FILE_SAVE_RETRIES
    THEN [file |-> fs.file, temp |-> fs.temp, ok |-> FALSE, seen |-> seen]
    ELSE LET r == save_attempt(fs, doc, plan[attempt])
             s == seen \cup {Look(r.file, before, doc)}
         IN IF r.ok THEN [file |-> r.file, temp |-> r.temp, ok |-> TRUE, seen |-> s]
            ELSE save_from([file |-> r.file, temp |-> r.temp], before, doc, plan,
                           attempt + 1, s)

\* ProcessingQueue._save: up to MAX_FILE_SAVE_RETRIES attempts, then IOError
_save(its, fs, plan) == save_from(fs, fs.file, Document(its), plan, 1, {})

\* the attempts of one _save: nothing after the first one that succeeds
CleanPlan == [a \in 1..MAX_FILE_SAVE_RETRIES |-> "ok"]
FaultPlans ==
    {p \in [1..MAX_FILE_SAVE_RETRIES -> AttemptFaults] :
        \A a \in 1..MAX_FILE_SAVE_RETRIES :
            p[a] = "ok" => \A b \in a..MAX_FILE_SAVE_RETRIES : p[b] = "ok"}
PlanCost(plan) == Cardinality({a \in 1..MAX_FILE_SAVE_RETRIES : plan[a] # "ok"})
Plans == {p \in FaultPlans : PlanCost(p) <= fault_budget}

\* outcome of a queue operation: the list, the files, what it returned or raised
Outcome(its, fs, seen, result, saved) ==
    [items |-> its, file |-> fs.file, temp |-> fs.temp, seen |-> seen,
     result |-> result, saved |-> saved]

\* the operation ends without calling _save
NoSave(its, fs, result) == Outcome(its, fs, {}, result, FALSE)

\* the operation ends with self._save()
WithSave(its, fs, plan, result) ==
    LET s == _save(its, fs, plan)
    IN Outcome(its, s, s.seen, IF s.ok THEN result ELSE "IOError", TRUE)

\* results that are exceptions
Raised(result) ==
    result \in {"ValueError: Invalid YouTube URL", "ValueError: Invalid category",
                "ValueError: Queue is full", "ValueError: URL already in queue",
                "ValueError: Item not found", "IOError"}

\* index of the first item with this id, 0 if none
IndexOfId(its, item_id) ==
    IF \E i \in 1..Len(its) : its[i].id = item_id
    THEN CHOOSE i \in 1..Len(its) :
            /\ its[i].id = item_id
            /\ \A j \in 1..(i - 1) : its[j].id # item_id
    ELSE 0

\* an add whose duplicate check counts failed items too
add_rejects_failed_too(its, fs, url_in, category_in, id, plan) ==
    LET url == Strip(url_in)
        category == _sanitize_category(category_in)
    IN IF ~_validate_youtube_url(url) THEN NoSave(its, fs, "ValueError: Invalid YouTube URL")
       ELSE IF ~category.ok THEN NoSave(its, fs, "ValueError: Invalid category")
       ELSE IF Len(its) >= max_size THEN NoSave(its, fs, "ValueError: Queue is full")
       ELSE IF \E i \in 1..Len(its) : its[i].url = url
            THEN NoSave(its, fs, "ValueError: URL already in queue")
       ELSE WithSave(Append(its, QueueItem(id, url, category.value)), fs, plan, "ok")

\* an add whose size check lets one item more in
add_admits_one_more(its, fs, url_in, category_in, id, plan) ==
    LET url == Strip(url_in)
        category == _sanitize_category(category_in)
    IN IF ~_validate_youtube_url(url) THEN NoSave(its, fs, "ValueError: Invalid YouTube URL")
       ELSE IF ~category.ok THEN NoSave(its, fs, "ValueError: Invalid category")
       ELSE IF Len(its) > max_size THEN NoSave(its, fs, "ValueError: Queue is full")
       ELSE IF \E i \in 1..Len(its) : its[i].url = url /\ its[i].status # "FAILED"
            THEN NoSave(its, fs, "ValueError: URL already in queue")
       ELSE WithSave(Append(its, QueueItem(id, url, category.value)), fs, plan, "ok")

\* ProcessingQueue.add
add(its, fs, url_in, category_in, id, plan) ==
    LET url == Strip(url_in)
        category == _sanitize_category(category_in)
    IN IF ~_validate_youtube_url(url) THEN NoSave(its, fs, "ValueError: Invalid YouTube URL")
       ELSE IF ~category.ok THEN NoSave(its, fs, "ValueError: Invalid category")
       ELSE IF Len(its) >= max_size THEN NoSave(its, fs, "ValueError: Queue is full")
       ELSE IF \E i \in 1..Len(its) : its[i].url = url /\ its[i].status # "FAILED"
            THEN NoSave(its, fs, "ValueError: URL already in queue")
       ELSE WithSave(Append(its, QueueItem(id, url, category.value)), fs, plan, "ok")

\* ProcessingQueue.remove
remove(its, fs, item_id, plan) ==
    LET kept == SelectSeq(its, LAMBDA item : item.id # item_id)
    IN IF Len(kept) < Len(its) THEN WithSave(kept, fs, plan, "True")
       ELSE NoSave(kept, fs, "False")

\* ProcessingQueue.clear
clear(its, fs, status_filter, plan) ==
    IF status_filter # None
    THEN WithSave(SelectSeq(its, LAMBDA item : item.status # status_filter), fs, plan, "ok")
    ELSE WithSave(<<>>, fs, plan, "ok")

\* a snapshot that takes every item, whatever its status
get_by_status_all(its, status) == its

\* ProcessingQueue.get_by_status
get_by_status(its, status) == SelectSeq(its, LAMBDA item : item.status = status)

\* ProcessingQueue.get_by_id: the index of the item, 0 for None
get_by_id(its, item_id) == IndexOfId(its, item_id)

\* truth value of an optional string: None and "" are false
IsSet(text) == text # None /\ text # ""

\* ProcessingQueue.update_status
update_status(its, fs, item_id, status, error, output_path, plan) ==
    LET i == IndexOfId(its, item_id)
    IN IF i = 0 THEN NoSave(its, fs, "ValueError: Item not found")
       ELSE LET updated ==
                  [its[i] EXCEPT
                     !.status = status,
                     !.error = IF IsSet(error) THEN error ELSE @,
                     !.output_path = IF IsSet(output_path) THEN output_path ELSE @,
                     !.processed_at = IF status \in {"COMPLETED", "FAILED"}
                                      THEN "stamped" ELSE @]
            IN WithSave([its EXCEPT ![i] = updated], fs, plan, "ok")

\* ProcessingQueue.update_metadata
update_metadata(its, fs, item_id, title, channel, plan) ==
    LET i == IndexOfId(its, item_id)
    IN IF i = 0 THEN NoSave(its, fs, "ok")
       ELSE LET updated ==
                  [its[i] EXCEPT !.title = IF title # None THEN title ELSE @,
                                 !.channel = IF channel # None THEN channel ELSE @]
            IN WithSave([its EXCEPT ![i] = updated], fs, plan, "ok")

\* an exchange that loses the item at position j
Swap_overwrites(its, i, j) == [its EXCEPT ![i] = its[j]]

\* the list with the items at positions i and j exchanged
Swap(its, i, j) == [its EXCEPT ![i] = its[j], ![j] = its[i]]

\* ProcessingQueue.move_up
move_up(its, fs, item_id, plan) ==
    IF \E i \in 2..Len(its) : its[i].id = item_id
    THEN LET i == CHOOSE k \in 2..Len(its) :
                     its[k].id = item_id /\ \A j \in 2..(k - 1) : its[j].id # item_id
         IN WithSave(Swap(its, i, i - 1), fs, plan, "True")
    ELSE NoSave(its, fs, "False")

\* ProcessingQueue.move_down
move_down(its, fs, item_id, plan) ==
    IF \E i \in 1..(Len(its) - 1) : its[i].id = item_id
    THEN LET i == CHOOSE k \in 1..(Len(its) - 1) :
                     its[k].id = item_id /\ \A j \in 1..(k - 1) : its[j].id # item_id
         IN WithSave(Swap(its, i, i + 1), fs, plan, "True")
    ELSE NoSave(its, fs, "False")

\* ProcessingQueue.get_stats
get_stats(its) ==
    [total |-> Len(its),
     pending |-> Len(get_by_status(its, "PENDING")),
     processing |-> Len(get_by_status(its, "PROCESSING")),
     completed |-> Len(get_by_status(its, "COMPLETED")),
     failed |-> Len(get_by_status(its, "FAILED"))]

\* a next-pending read that returns the last pending item
get_next_pending_last(its) ==
    IF \E i \in 1..Len(its) : its[i].status = "PENDING"
    THEN CHOOSE i \in 1..Len(its) :
            /\ its[i].status = "PENDING"
            /\ \A j \in (i + 1)..Len(its) : its[j].status # "PENDING"
    ELSE 0

\* ProcessingQueue.get_next_pending: the index of the item, 0 for None
get_next_pending(its) ==
    IF \E i \in 1..Len(its) : its[i].status = "PENDING"
    THEN CHOOSE i \in 1..Len(its) :
            /\ its[i].status = "PENDING"
            /\ \A j \in 1..(i - 1) : its[j].status # "PENDING"
    ELSE 0

\* the files as a queue operation finds them
Files == [file |-> queue_file, temp |-> temp_file]

\* a queue operation has run, under the lock, with this outcome
Commit(o, plan) ==
    /\ items' = o.items
    /\ queue_file' = o.file
    /\ temp_file' = o.temp
    /\ save_seen' = IF o.saved THEN o.seen ELSE save_seen
    /\ fault_budget' = fault_budget - (IF o.saved THEN PlanCost(plan) ELSE 0)

(***************************************************************************)
(* Calls of the queue's operations by the console and other callers.       *)
(***************************************************************************)
Add(url, category, plan) ==
    /\ LET o == add(items, Files, url, category, next_id, plan)
       IN /\ Len(o.items) > Len(items) => next_id <= MaxAdds
          /\ Commit(o, plan)
          /\ next_id' = IF Len(o.items) > Len(items) THEN next_id + 1 ELSE next_id
    /\ UNCHANGED drainVars
    /\ UNCHANGED <<pvVars, unitVars, sideVars>>

Remove(item_id, plan) ==
    /\ Commit(remove(items, Files, item_id, plan), plan)
    /\ UNCHANGED <<next_id, mq, cq>>
    /\ UNCHANGED <<pvVars, unitVars, sideVars>>

Clear(status_filter, plan) ==
    /\ Commit(clear(items, Files, status_filter, plan), plan)
    /\ UNCHANGED <<next_id, mq, cq>>
    /\ UNCHANGED <<pvVars, unitVars, sideVars>>

MoveUp(item_id, plan) ==
    /\ Commit(move_up(items, Files, item_id, plan), plan)
    /\ UNCHANGED <<next_id, mq, cq>>
    /\ UNCHANGED <<pvVars, unitVars, sideVars>>

MoveDown(item_id, plan) ==
    /\ Commit(move_down(items, Files, item_id, plan), plan)
    /\ UNCHANGED <<next_id, mq, cq>>
    /\ UNCHANGED <<pvVars, unitVars, sideVars>>

\* render_queue_item: the retry control of a failed item
Retry(item_id, plan) ==
    /\ \E i \in 1..Len(items) : items[i].id = item_id /\ items[i].status = "FAILED"
    /\ Commit(update_status(items, Files, item_id, "PENDING", None, None, plan), plan)
    /\ UNCHANGED <<next_id, mq, cq>>
    /\ UNCHANGED <<pvVars, unitVars, sideVars>>

\* the calls of update_status that queue_manager.py and web_ui.py make: a
\* pending item is marked processing, a processing item completed or failed,
\* a failed item is reset to pending
StatusCalls ==
    {[from |-> "PENDING", status |-> "PROCESSING", error |-> None, output_path |-> None],
     [from |-> "PROCESSING", status |-> "COMPLETED", error |-> None, output_path |-> "path"],
     [from |-> "PROCESSING", status |-> "FAILED", error |-> "error", output_path |-> None],
     [from |-> "FAILED", status |-> "PENDING", error |-> None, output_path |-> None]}

UpdateStatus(item_id, call, plan) ==
    /\ \A i \in 1..Len(items) : items[i].id = item_id => items[i].status = call.from
    /\ Commit(update_status(items, Files, item_id, call.status, call.error,
                            call.output_path, plan), plan)
    /\ UNCHANGED <<next_id, mq, cq>>
    /\ UNCHANGED <<pvVars, unitVars, sideVars>>

UpdateMetadata(item_id, plan) ==
    /\ Commit(update_metadata(items, Files, item_id, "title", "channel", plan), plan)
    /\ UNCHANGED <<next_id, mq, cq>>
    /\ UNCHANGED <<pvVars, unitVars, sideVars>>

IdleDrain == [pc |-> "idle", snap |-> <<>>, i |-> 0, completed |-> <<>>,
              failed |-> <<>>, stop_on_error |-> FALSE, handed |-> <<>>,
              pending0 |-> {}, error_msg |-> None, msgs |-> <<>>]
IdleConsole == [pc |-> "idle", cur |-> NoId]

(***************************************************************************)
(* ProcessingQueue.process_queue: the snapshot drain.                      *)
(***************************************************************************)
\* ids of a list of items, in order
IdsOf(its) == [k \in 1..Len(its) |-> its[k].id]

\* the loop of process_queue moves to the next snapshot item, or returns
NextItem(d) ==
    IF d.i < Len(d.snap) THEN [d EXCEPT !.pc = "mark", !.i = d.i + 1]
    ELSE [d EXCEPT !.pc = "done"]

\* lines 403-408: the snapshot of the pending items
process_queue_start(stop_on_error) ==
    /\ mq.pc \in {"idle", "done", "raised"}
    /\ LET pending_items == get_by_status(items, "PENDING")
           d == [IdleDrain EXCEPT
                    !.snap = IdsOf(pending_items),
                    !.stop_on_error = stop_on_error,
                    !.pending0 = {items[k].id : k \in {j \in 1..Len(items) :
                                                        items[j].status = "PENDING"}}]
       IN mq' = NextItem(d)
    /\ UNCHANGED <<apiVars, cq>>
    /\ UNCHANGED <<pvVars, unitVars, sideVars>>

\* line 411: update_status(item.id, PROCESSING)
process_queue_mark(plan) ==
    /\ mq.pc = "mark"
    /\ LET o == update_status(items, Files, mq.snap[mq.i], "PROCESSING", None, None, plan)
       IN /\ Commit(o, plan)
          /\ mq' = IF o.result = "ok" THEN [mq EXCEPT !.pc = "work"]
                   ELSE [mq EXCEPT !.pc = "fail", !.error_msg = o.result]
    /\ UNCHANGED <<next_id, cq>>
    /\ UNCHANGED <<pvVars, unitVars, sideVars>>

\* what str(e) can be for an exception of on_progress or process_func
ErrorMessages == {"error", ""}

\* lines 414-418, 425: on_progress or process_func raises, error_msg = str(e)
process_queue_raises(in_callback, msg) ==
    /\ mq.pc = "work"
    /\ mq' = [mq EXCEPT !.pc = "fail", !.error_msg = msg,
                        !.handed = IF in_callback THEN @ ELSE Append(@, mq.snap[mq.i])]
    /\ UNCHANGED <<apiVars, cq>>
    /\ UNCHANGED <<pvVars, unitVars, sideVars>>

\* lines 414-422: process_func returns, update_status(item.id, COMPLETED)
process_queue_complete(plan) ==
    /\ mq.pc = "work"
    /\ LET o == update_status(items, Files, mq.snap[mq.i], "COMPLETED", None, "path", plan)
           h == [mq EXCEPT !.handed = Append(@, mq.snap[mq.i])]
       IN /\ Commit(o, plan)
          /\ mq' = IF o.result = "ok"
                   THEN NextItem([h EXCEPT !.completed = Append(@, mq.snap[mq.i])])
                   ELSE [h EXCEPT !.pc = "fail", !.error_msg = o.result]
    /\ UNCHANGED <<next_id, cq>>
    /\ UNCHANGED <<pvVars, unitVars, sideVars>>

\* lines 424-430: the except clause, update_status(item.id, FAILED)
process_queue_fail(plan) ==
    /\ mq.pc = "fail"
    /\ LET o == update_status(items, Files, mq.snap[mq.i], "FAILED", mq.error_msg, None,
                              plan)
           f == [mq EXCEPT !.failed = Append(@, mq.snap[mq.i]),
                           !.msgs = Append(@, mq.error_msg), !.error_msg = None]
       IN /\ Commit(o, plan)
          /\ mq' = IF o.result # "ok" THEN [mq EXCEPT !.pc = "raised", !.error_msg = None]
                   ELSE IF mq.stop_on_error THEN [f EXCEPT !.pc = "done"]
                   ELSE NextItem(f)
    /\ UNCHANGED <<next_id, cq>>
    /\ UNCHANGED <<pvVars, unitVars, sideVars>>

(***************************************************************************)
(* web_ui.process_queue_with_live_updates: the console's re-polling drain. *)
(***************************************************************************)
\* lines 740-745: nothing to do without a pending item
console_drain_start ==
    /\ cq.pc \in {"idle", "crashed"}
    /\ get_stats(items).pending # 0
    /\ cq' = [IdleConsole EXCEPT !.pc = "poll"]
    /\ UNCHANGED <<apiVars, mq>>
    /\ UNCHANGED <<pvVars, unitVars, sideVars>>

\* lines 763-774: get_next_pending, and whether the item has a title
console_drain_poll ==
    /\ cq.pc = "poll"
    /\ LET k == get_next_pending(items)
       IN cq' = IF k = 0 THEN IdleConsole
                ELSE [pc |-> IF items[k].title = None THEN "meta" ELSE "mark",
                      cur |-> items[k].id]
    /\ UNCHANGED <<apiVars, mq>>
    /\ UNCHANGED <<pvVars, unitVars, sideVars>>

\* lines 775-783: the metadata fetch fails, the loop goes on with the item
console_drain_meta_fails ==
    /\ cq.pc = "meta"
    /\ cq' = [cq EXCEPT !.pc = "mark"]
    /\ UNCHANGED <<apiVars, mq>>
    /\ UNCHANGED <<pvVars, unitVars, sideVars>>

\* lines 775-787: update_metadata, get_by_id, then item.title is read
console_drain_meta(plan) ==
    /\ cq.pc = "meta"
    /\ LET o == update_metadata(items, Files, cq.cur, "title", "channel", plan)
       IN /\ Commit(o, plan)
          /\ cq' = IF o.result = "ok" /\ get_by_id(o.items, cq.cur) = 0
                   THEN [cq EXCEPT !.pc = "crashed"]
                   ELSE [cq EXCEPT !.pc = "mark"]
    /\ UNCHANGED <<next_id, mq>>
    /\ UNCHANGED <<pvVars, unitVars, sideVars>>

\* process_video_with_cli, line 294: update_status(item_id, PROCESSING)
process_video_with_cli_mark(plan) ==
    /\ cq.pc = "mark"
    /\ LET o == update_status(items, Files, cq.cur, "PROCESSING", None, None, plan)
       IN /\ Commit(o, plan)
          /\ cq' = [cq EXCEPT !.pc = IF o.result = "ok" THEN "work" ELSE "fail"]
    /\ UNCHANGED <<next_id, mq>>
    /\ UNCHANGED <<pvVars, unitVars, sideVars>>

\* process_video_with_cli, lines 297-345: the child ends, its exit status
\* and output decide between COMPLETED and FAILED
process_video_with_cli_child(succeeded, plan) ==
    /\ cq.pc = "work"
    /\ LET o == IF succeeded
                THEN update_status(items, Files, cq.cur, "COMPLETED", None, "path", plan)
                ELSE update_status(items, Files, cq.cur, "FAILED", "error", None, plan)
       IN /\ Commit(o, plan)
          /\ cq' = IF o.result = "ok" THEN [IdleConsole EXCEPT !.pc = "poll"]
                   ELSE [cq EXCEPT !.pc = "fail"]
    /\ UNCHANGED <<next_id, mq>>
    /\ UNCHANGED <<pvVars, unitVars, sideVars>>

\* process_video_with_cli, lines 347-352: the wait times out
process_video_with_cli_timeout(plan) ==
    /\ cq.pc = "work"
    /\ LET o == update_status(items, Files, cq.cur, "FAILED", "error", None, plan)
       IN /\ Commit(o, plan)
          /\ cq' = IF o.result = "ok" THEN [IdleConsole EXCEPT !.pc = "poll"]
                   ELSE [cq EXCEPT !.pc = "crashed"]
    /\ UNCHANGED <<next_id, mq>>
    /\ UNCHANGED <<pvVars, unitVars, sideVars>>

\* process_video_with_cli, lines 297-304: starting the child raises
process_video_with_cli_error ==
    /\ cq.pc = "work"
    /\ cq' = [cq EXCEPT !.pc = "fail"]
    /\ UNCHANGED <<apiVars, mq>>
    /\ UNCHANGED <<pvVars, unitVars, sideVars>>

\* process_video_with_cli, lines 353-357: except Exception
process_video_with_cli_fail(plan) ==
    /\ cq.pc = "fail"
    /\ LET o == update_status(items, Files, cq.cur, "FAILED", "error", None, plan)
       IN /\ Commit(o, plan)
          /\ cq' = IF o.result = "ok" THEN [IdleConsole EXCEPT !.pc = "poll"]
                   ELSE [cq EXCEPT !.pc = "crashed"]
    /\ UNCHANGED <<next_id, mq>>
    /\ UNCHANGED <<pvVars, unitVars, sideVars>>

QInit ==
    /\ items = _load(AbsentFile)
    /\ queue_file = AbsentFile
    /\ temp_file = AbsentFile
    /\ save_seen = {}
    /\ next_id = 1
    /\ fault_budget \in {0, MaxAttemptFaults}
    /\ mq = IdleDrain
    /\ cq = IdleConsole

(***************************************************************************)
(* The RecoveryManager of one video called step by step, as a pipeline     *)
(* that checkpoints every stage does.                                      *)
(***************************************************************************)
Partials == {"partials1"}
Contents == {"content1", "content2"}

\* op: the last call; arg: what it saved; prev, prev2: the two calls before
\* it; meta: the record given to the last save_metadata that no
\* complete_processing has followed
NoCall == [op |-> None, arg |-> None, prev |-> None, prev2 |-> None, meta |-> None]

Called(r, op, arg) == [r EXCEPT !.op = op, !.arg = arg, !.prev = r.op, !.prev2 = r.prev]

SaveMetadata(v, metadata) ==
    /\ state_file' = [state_file EXCEPT ![v] = save_metadata(@, metadata, "ok")]
    /\ rm' = [rm EXCEPT ![v] = [Called(@, "save_metadata", metadata)
                                   EXCEPT !.meta = metadata]]
    /\ UNCHANGED <<notes, pv, runs, state_faults, rt, rc, sideVars>>
    /\ UNCHANGED qVars

SaveTranscript(v, transcript) ==
    /\ state_file' = [state_file EXCEPT ![v] = save_transcript(@, transcript, "ok")]
    /\ rm' = [rm EXCEPT ![v] = Called(@, "save_transcript", transcript)]
    /\ UNCHANGED <<notes, pv, runs, state_faults, rt, rc, sideVars>>
    /\ UNCHANGED qVars

SaveChunksProcessed(v, transcript, partials) ==
    /\ state_file' = [state_file EXCEPT
                         ![v] = save_chunks_processed(@, transcript, partials, "ok")]
    /\ rm' = [rm EXCEPT ![v] = Called(@, "save_chunks_processed", partials)]
    /\ UNCHANGED <<notes, pv, runs, state_faults, rt, rc, sideVars>>
    /\ UNCHANGED qVars

SaveExtractedContent(v, content) ==
    /\ state_file' = [state_file EXCEPT ![v] = save_extracted_content(@, content, "ok")]
    /\ rm' = [rm EXCEPT ![v] = Called(@, "save_extracted_content", content)]
    /\ UNCHANGED <<notes, pv, runs, state_faults, rt, rc, sideVars>>
    /\ UNCHANGED qVars

CompleteProcessing(v) ==
    /\ state_file' = [state_file EXCEPT ![v] = complete_processing(@)]
    /\ rm' = [rm EXCEPT ![v] = [NoCall EXCEPT !.op = "complete_processing"]]
    /\ UNCHANGED <<notes, pv, runs, state_faults, rt, rc, sideVars>>
    /\ UNCHANGED qVars

(***************************************************************************)
(* utils/retry.py: the retry decorators around a function that may fail.   *)
(* Delays are in milliseconds.                                             *)
(***************************************************************************)
\* largest max_attempts of the decorators configured by hand
MaxAttempts == 3

\* exceptions: type, message; a RetryError also carries the attempts it names
NoError == [type |-> None, msg |-> None, attempts |-> 0]
Exc(type, msg) == [type |-> type, msg |-> msg, attempts |-> 0]

\* RetryError(f"Failed after {max_attempts} attempts: {last_exception}")
RetryError(max_attempts, last_exception) ==
    [type |-> "RetryError", msg |-> last_exception.msg, attempts |-> max_attempts]

\* what the decorated function raises
FuncErrors == {Exc("ConnectionError", "connection timeout"),
               Exc("Exception", "rate limit exceeded"),
               Exc("Exception", "503 service unavailable"),
               Exc("Exception", "empty content"),
               Exc("ValueError", "invalid request")}

\* one call of the decorated function: a value or an exception
Returns(v) == [ok |-> TRUE, value |-> v, error |-> NoError]
Raises(e) == [ok |-> FALSE, value |-> None, error |-> e]
FuncResults == {Returns("value")} \cup {Raises(e) : e \in FuncErrors}

\* except exceptions as e: isinstance against the configured types
IsInstance(e, exceptions) == "Exception" \in exceptions \/ e.type \in exceptions

\* the substrings each condition looks for, on the messages above
is_network_error(e) == e.msg \in {"connection timeout"}
is_api_rate_limit(e) ==
    e.msg \in {"rate limit exceeded",
               "LLM JSON processing failed: rate limit exceeded",
               "LLM text processing failed: rate limit exceeded",
               "LLM JSON processing failed: GPT-5 returned empty content - possible rate limit or model issue"}
is_temporary_api_error(e) ==
    e.msg \in {"503 service unavailable",
               "LLM JSON processing failed: Failed to parse LLM JSON response. Original error: {json_err}, Content: {content[:300]: temporary}"}
is_gpt5_empty_response(e) ==
    e.msg \in {"empty content",
               "LLM JSON processing failed: GPT-5 returned empty content - possible rate limit or model issue",
               "LLM JSON processing failed: No JSON found in LLM response. Content: {content[:300]}"}
is_gpt5_error(e) ==
    e.msg \in {"empty content", "rate limit exceeded",
               "LLM JSON processing failed: rate limit exceeded",
               "LLM text processing failed: rate limit exceeded",
               "LLM JSON processing failed: GPT-5 returned empty content - possible rate limit or model issue",
               "LLM JSON processing failed: No JSON found in LLM response. Content: {content[:300]}"}

Condition(name, e) ==
    CASE name = "is_network_error" -> is_network_error(e)
      [] name = "is_api_rate_limit" -> is_api_rate_limit(e)
      [] name = "is_temporary_api_error" -> is_temporary_api_error(e)
      [] name = "is_gpt5_empty_response" -> is_gpt5_empty_response(e)
      [] OTHER -> is_gpt5_error(e)

\* any(condition(exception) for condition in conditions)
should_retry(conditions, e) == \E name \in conditions : Condition(name, e)

RECURSIVE Power(_, _)
Power(base, k) == IF k = 0 THEN 1 ELSE base * Power(base, k - 1)

Min(a, b) == IF a <= b THEN a ELSE b

\* the pre-configured decorators
network_retry == [conditions |-> {"is_network_error", "is_temporary_api_error"},
                  max_attempts |-> 3, initial_delay |-> 2000, max_delay |-> 30000]
api_retry == [conditions |-> {"is_api_rate_limit", "is_temporary_api_error"},
              max_attempts |-> 5, initial_delay |-> 5000, max_delay |-> 120000]
llm_retry == [conditions |-> {"is_gpt5_error", "is_api_rate_limit",
                              "is_temporary_api_error", "is_gpt5_empty_response"},
              max_attempts |-> 5, initial_delay |-> 2000, max_delay |-> 60000]

\* retry_on_conditions configured by hand, with a max_delay that is reached
ConditionConfigs ==
    {network_retry, api_retry, llm_retry}
    \cup {[conditions |-> {"is_network_error"}, max_attempts |-> n,
           initial_delay |-> 2000, max_delay |-> 3000] : n \in 1..MaxAttempts}

\* retry_with_backoff with its defaults, and with one retryable type
BackoffConfigs ==
    {[max_attempts |-> n, initial_delay |-> 1000, max_delay |-> 60000,
      exponential_base |-> 2, jitter |-> j, exceptions |-> ex] :
        n \in 1..MaxAttempts, j \in BOOLEAN,
        ex \in {{"Exception"}, {"ConnectionError"}}}

\* random.random() in thousandths
Randoms == {0, 500, 999}

\* the wrapper's locals: attempt, last_exception; calls and sleeps count what
\* it has done; value and raised are how it ended
IdleRetry == [pc |-> "idle", decorator |-> None, attempt |-> 0, calls |-> 0,
              sleeps |-> <<>>, last_exception |-> NoError, raised |-> NoError,
              value |-> None, failures |-> <<>>]

\* a test that lets the loop go one pass further
is_last_attempt_late(attempt, max_attempts) == attempt = max_attempts

\* if attempt == max_attempts - 1
is_last_attempt(attempt, max_attempts) == attempt = max_attempts - 1

\* a delay that doubles once too often
backoff_delay_early(initial_delay, base, attempt, max_delay) ==
    Min(initial_delay * Power(base, attempt + 1), max_delay)

\* min(initial_delay * (base ** attempt), max_delay)
backoff_delay(initial_delay, base, attempt, max_delay) ==
    Min(initial_delay * Power(base, attempt), max_delay)

\* a handler that wraps what it cannot retry
non_retryable_wrapped(called, e) ==
    [called EXCEPT !.pc = "raised", !.raised = RetryError(called.calls, e)]

\* except Exception: raise
non_retryable(called, e) == [called EXCEPT !.pc = "raised", !.raised = e]

\* a give-up that always reports exhaustion
give_up_always_exhausted(cfg, last_exception) ==
    RetryError(cfg.max_attempts, last_exception)

\* after the loop of retry_on_conditions: RetryError, or the error itself
give_up(cfg, last_exception) ==
    IF should_retry(cfg.conditions, last_exception)
    THEN RetryError(cfg.max_attempts, last_exception)
    ELSE last_exception

\* one pass of the loop of retry_with_backoff's wrapper
retry_with_backoff(r, cfg, result, random) ==
    LET called == [r EXCEPT !.calls = @ + 1,
                            !.failures = IF result.ok THEN @ ELSE Append(@, result.error)]
        e == result.error
    IN IF result.ok THEN [called EXCEPT !.pc = "returned", !.value = result.value]
       ELSE IF IsInstance(e, cfg.exceptions)
       THEN IF is_last_attempt(r.attempt, cfg.max_attempts)
            THEN [called EXCEPT !.pc = "raised", !.last_exception = e,
                                !.raised = RetryError(cfg.max_attempts, e)]
            ELSE LET delay == backoff_delay(cfg.initial_delay, cfg.exponential_base,
                                            r.attempt, cfg.max_delay)
                     jittered == IF cfg.jitter
                                 THEN (delay * (500 + random \div 2)) \div 1000
                                 ELSE delay
                 IN [called EXCEPT !.last_exception = e,
                                   !.sleeps = Append(@, jittered),
                                   !.attempt = @ + 1]
       ELSE non_retryable(called, e)

\* one pass of the loop of retry_on_conditions' wrapper, and what follows it
retry_on_conditions(r, cfg, result) ==
    LET called == [r EXCEPT !.calls = @ + 1,
                            !.failures = IF result.ok THEN @ ELSE Append(@, result.error)]
        e == result.error
    IN IF result.ok THEN [called EXCEPT !.pc = "returned", !.value = result.value]
       ELSE IF is_last_attempt(r.attempt, cfg.max_attempts)
               \/ ~should_retry(cfg.conditions, e)
       THEN [called EXCEPT !.pc = "raised", !.last_exception = e,
                           !.raised = give_up(cfg, e)]
       ELSE LET delay == backoff_delay(cfg.initial_delay, 2, r.attempt, cfg.max_delay)
            IN [called EXCEPT !.last_exception = e,
                              !.sleeps = Append(@, delay),
                              !.attempt = @ + 1]

\* a function decorated with retry_with_backoff is called
BackoffCall(cfg) ==
    /\ rt.pc # "running"
    /\ rt' = [IdleRetry EXCEPT !.pc = "running", !.decorator = "retry_with_backoff"]
    /\ rc' = cfg
    /\ UNCHANGED <<pvVars, qVars, rm, sideVars>>

\* a function decorated with retry_on_conditions is called
ConditionsCall(cfg) ==
    /\ rt.pc # "running"
    /\ rt' = [IdleRetry EXCEPT !.pc = "running", !.decorator = "retry_on_conditions"]
    /\ rc' = cfg
    /\ UNCHANGED <<pvVars, qVars, rm, sideVars>>

\* the wrapper calls the function once and handles what it does
BackoffAttempt(result, random) ==
    /\ rt.pc = "running"
    /\ rt.decorator = "retry_with_backoff"
    /\ rt' = retry_with_backoff(rt, rc, result, random)
    /\ UNCHANGED <<pvVars, qVars, rm, rc, sideVars>>

ConditionsAttempt(result) ==
    /\ rt.pc = "running"
    /\ rt.decorator = "retry_on_conditions"
    /\ rt' = retry_on_conditions(rt, rc, result)
    /\ UNCHANGED <<pvVars, qVars, rm, rc, sideVars>>

\* no RecoveryManager call made yet, no decorated call in progress
UnitInit ==
    /\ rm = [v \in VideoIds |-> NoCall]
    /\ rt = IdleRetry
    /\ rc = network_retry

(***************************************************************************)
(* core/config.py: the settings, read from the environment.                *)
(***************************************************************************)
NoEnv == [LLM_MODEL |-> None, OPENAI_API_KEY |-> None, ANTHROPIC_API_KEY |-> None,
          ENABLE_CACHE |-> None]

\* values of LLM_MODEL
ModelNames == {"gpt-4o-mini", "GPT-4", "openai/o1", "claude-3-haiku",
               "anthropic/sonnet", "ollama/llama3", "ollama/gpt-oss", "mistral-large"}

\* str.lower on the names above
Lower(name) == IF name = "GPT-4" THEN "gpt-4" ELSE name

\* word in name, for the words validate looks for
Contains(name, word) ==
    CASE word = "gpt" -> name \in {"gpt-4o-mini", "gpt-4", "ollama/gpt-oss"}
      [] word = "openai" -> name \in {"openai/o1"}
      [] word = "claude" -> name \in {"claude-3-haiku"}
      [] word = "anthropic" -> name \in {"anthropic/sonnet"}
      [] OTHER -> FALSE

\* name.startswith("ollama/")
StartsWithOllama(name) == name \in {"ollama/llama3", "ollama/gpt-oss"}

\* os.getenv("LLM_MODEL", "gpt-4o-mini")
llm_model(e) == IF e.LLM_MODEL = None THEN "gpt-4o-mini" ELSE e.LLM_MODEL

\* os.getenv("ENABLE_CACHE", "true").lower() in ("true", "1", "yes")
enable_cache(e) == e.ENABLE_CACHE \in {None, "true", "TRUE", "1", "yes"}

\* not self.openai_api_key: unset or empty
Missing(key) == key \in {None, ""}

\* Config.validate: None, or the message of the ConfigurationError raised
validate(e) ==
    LET model == Lower(llm_model(e)) IN
    IF Contains(model, "gpt") \/ Contains(model, "openai")
    THEN IF Missing(e.OPENAI_API_KEY) THEN "OPENAI_API_KEY required" ELSE None
    ELSE IF Contains(model, "claude") \/ Contains(model, "anthropic")
    THEN IF Missing(e.ANTHROPIC_API_KEY) THEN "ANTHROPIC_API_KEY required" ELSE None
    ELSE IF ~StartsWithOllama(model) THEN "Unsupported model"
    ELSE None

\* the environment is changed from outside, or by a .env file
SetEnv(name, value) ==
    /\ env[name] # value
    /\ env' = [env EXCEPT ![name] = value]
    /\ UNCHANGED <<pvVars, qVars, unitVars, cli, lc, child, am, ft>>

(***************************************************************************)
(* cli.py: the process command; extractor.py: process_videos.              *)
(***************************************************************************)
\* largest number of URLs on a command line
MaxUrls == 3

UrlLists == UNION {[1..n -> {"https://youtu.be/AAAAAAAAAAA",
                             "https://www.youtube.com/watch?v=BBBBBBBBBBB"}] :
                       n \in 1..MaxUrls}

\* the path of the note process_video writes for a URL
PathOf(url) == IF url = "https://youtu.be/AAAAAAAAAAA"
               THEN "notes/a.md" ELSE "notes/b.md"

\* process_video returns the path or raises: the domain error, or another
VideoResults(url) == {Ok(PathOf(url)), Err("YouTubeExtractorError"), Err("OSError")}

AllVideoResults == {Ok("notes/a.md"), Ok("notes/b.md"),
                    Err("YouTubeExtractorError"), Err("OSError")}

\* exit_status -1: still running; outcomes: what process_video did, per URL
IdleCli == [pc |-> "idle", urls |-> <<>>, dry_run |-> FALSE, i |-> 0,
            results |-> <<>>, errors |-> <<>>, outcomes |-> <<>>,
            exit_status |-> -1, message |-> None]

\* a loop that lets the failure of a URL end it
process_videos_stops(r, result) ==
    LET url == r.urls[r.i + 1]
        seen == [r EXCEPT !.outcomes = Append(@, [url |-> url, result |-> result])]
    IN IF result.ok
       THEN [seen EXCEPT !.i = @ + 1, !.results = Append(@, result.value)]
       ELSE [seen EXCEPT !.i = Len(r.urls), !.errors = Append(@, <<url, result.error>>)]

\* one pass of the loop of process_videos
process_videos(r, result) ==
    LET url == r.urls[r.i + 1]
        seen == [r EXCEPT !.i = @ + 1,
                          !.outcomes = Append(@, [url |-> url, result |-> result])]
    IN IF result.ok
       THEN [seen EXCEPT !.results = Append(@, result.value)]
       ELSE [seen EXCEPT !.errors = Append(@, <<url, result.error>>)]

\* process, lines 46-58: validate the configuration, dry run, or go on
process_start(urls, dry_run) ==
    /\ cli.pc \in {"idle", "exited"}
    /\ LET started == [IdleCli EXCEPT !.urls = urls, !.dry_run = dry_run]
           error == validate(env)
       IN cli' = IF error # None
                 THEN [started EXCEPT !.pc = "exited", !.exit_status = 1,
                                      !.message = "Configuration error"]
                 ELSE IF dry_run
                 THEN [started EXCEPT !.pc = "exited", !.exit_status = 0,
                                      !.message = "DRY RUN"]
                 ELSE IF Len(urls) = 1 THEN [started EXCEPT !.pc = "single"]
                 ELSE [started EXCEPT !.pc = "batch"]
    /\ UNCHANGED <<pvVars, qVars, unitVars, env, lc, child, am, ft>>

\* process, lines 61-63 and 68-70: one URL; an error that is not a
\* YouTubeExtractorError leaves the command as a traceback, status 1
process_single(result) ==
    /\ cli.pc = "single"
    /\ result \in VideoResults(cli.urls[1])
    /\ LET seen == [cli EXCEPT !.pc = "exited", !.i = 1,
                               !.outcomes = <<[url |-> cli.urls[1], result |-> result]>>]
       IN cli' = IF result.ok
                 THEN [seen EXCEPT !.results = <<result.value>>, !.exit_status = 0,
                                   !.message = "Saved"]
                 ELSE IF result.error = "YouTubeExtractorError"
                 THEN [seen EXCEPT !.exit_status = 1, !.message = "Error"]
                 ELSE [seen EXCEPT !.exit_status = 1, !.message = "Traceback"]
    /\ UNCHANGED <<pvVars, qVars, unitVars, env, lc, child, am, ft>>

\* process_videos, lines 117-123: the next URL
process_videos_pass(result) ==
    /\ cli.pc = "batch"
    /\ cli.i < Len(cli.urls)
    /\ result \in VideoResults(cli.urls[cli.i + 1])
    /\ cli' = process_videos(cli, result)
    /\ UNCHANGED <<pvVars, qVars, unitVars, env, lc, child, am, ft>>

\* process_videos, lines 125-130, and process, line 66: the list is returned
process_videos_return ==
    /\ cli.pc = "batch"
    /\ cli.i >= Len(cli.urls)
    /\ cli' = [cli EXCEPT !.pc = "exited", !.exit_status = 0, !.message = "Processed"]
    /\ UNCHANGED <<pvVars, qVars, unitVars, env, lc, child, am, ft>>

(***************************************************************************)
(* ProcessingQueue.add_multiple (queue_manager.py).                        *)
(***************************************************************************)
\* number of lines handed to one add_multiple call
MaxLines == 2

\* lines of a pasted list: URLs, a blank line, a comment line
LineInputs == UrlInputs \cup {"", "# later"}
LineLists == UNION {[1..n -> LineInputs] : n \in 1..MaxLines}

\* url.startswith("#")
StartsWithHash(url) == url = "# later"

\* isinstance(e, ValueError) for the results of add
IsValueError(result) ==
    result \in {"ValueError: Invalid YouTube URL", "ValueError: Invalid category",
                "ValueError: Queue is full", "ValueError: URL already in queue"}

NoBulk == [urls |-> <<>>, category |-> None, log |-> <<>>, created |-> <<>>,
           raised |-> None]

\* one pass of the loop of add_multiple over the line urls[k]; st holds the
\* queue, the files, the next fresh id, the returned list and, per line
\* handled, what became of it
RECURSIVE add_multiple_from(_, _, _, _, _)
add_multiple_from(st, urls, category, plan, k) ==
    IF k > Len(urls) \/ st.raised # None THEN st
    ELSE LET url == Strip(urls[k])
         IN IF url = "" \/ StartsWithHash(url)
            THEN add_multiple_from([st EXCEPT !.log = Append(@, "skipped line")],
                                   urls, category, plan, k + 1)
            ELSE LET o == add(st.items, [file |-> st.file, temp |-> st.temp], url,
                              category, st.next_id, plan)
                     after == [st EXCEPT !.items = o.items, !.file = o.file,
                                         !.temp = o.temp,
                                         !.seen = @ \cup o.seen,
                                         !.saved = @ \/ o.saved,
                                         !.log = Append(@, o.result)]
                 IN IF o.result = "ok"
                    THEN add_multiple_from(
                            [after EXCEPT !.next_id = @ + 1,
                                          !.created = Append(@, st.next_id)],
                            urls, category, plan, k + 1)
                    ELSE IF IsValueError(o.result)
                    THEN add_multiple_from(after, urls, category, plan, k + 1)
                    ELSE [after EXCEPT !.raised = o.result]

\* ProcessingQueue.add_multiple
add_multiple(its, fs, urls, category, id, plan) ==
    add_multiple_from([items |-> its, file |-> fs.file, temp |-> fs.temp,
                       seen |-> {}, saved |-> FALSE, next_id |-> id,
                       log |-> <<>>, created |-> <<>>, raised |-> None],
                      urls, category, plan, 1)

AddMultiple(urls, category, plan) ==
    /\ LET o == add_multiple(items, Files, urls, category, next_id, plan)
       IN /\ o.next_id <= MaxAdds + 1
          /\ Commit(o, plan)
          /\ next_id' = o.next_id
          /\ am' = [urls |-> urls, category |-> category, log |-> o.log,
                    created |-> o.created, raised |-> o.raised]
    /\ UNCHANGED drainVars
    /\ UNCHANGED <<pvVars, unitVars, env, cli, lc, child, ft>>

(***************************************************************************)
(* The console's child process (web_ui.py): process_video of the single    *)
(* video page and process_video_with_cli of the batch flow start the CLI   *)
(* as a child, read its output to the end and then wait for it.            *)
(***************************************************************************)
\* number of output lines of a child that are told apart
MaxOutput == 2

\* pc: where the console's call is (none, reading, waiting, done)
\* proc: the child (open: running with its output stream open, closed:
\*       running with the stream closed, exited, killed)
\* age: whether the child has been running for more than the 600 seconds
NoChild == [pc |-> "none", flow |-> "none", item |-> 0, proc |-> "none",
            age |-> "within", lines |-> 0, output_path |-> None,
            returncode |-> 0, report |-> None]

\* process_video: subprocess.Popen
process_video_popen ==
    /\ child.pc \in {"none", "done"}
    /\ child' = [NoChild EXCEPT !.pc = "reading", !.flow = "page", !.proc = "open"]
    /\ UNCHANGED <<pvVars, qVars, unitVars, env, cli, lc, am, ft>>

\* process_video_with_cli: the item marked processing, then subprocess.Popen
process_video_with_cli_popen(item_id) ==
    /\ child.pc \in {"none", "done"}
    /\ \E i \in 1..Len(items) : items[i].id = item_id /\ items[i].status = "PENDING"
    /\ Commit(update_status(items, Files, item_id, "PROCESSING", None, None, CleanPlan),
              CleanPlan)
    /\ child' = [NoChild EXCEPT !.pc = "reading", !.flow = "batch", !.item = item_id,
                                !.proc = "open"]
    /\ UNCHANGED <<next_id, mq, cq>>
    /\ UNCHANGED <<pvVars, unitVars, env, cli, lc, am, ft>>

\* the child writes a line and process.stdout.readline() returns it
readline_line(saved_to) ==
    /\ child.pc = "reading"
    /\ child.proc = "open"
    /\ child.lines < MaxOutput
    /\ child' = [child EXCEPT !.lines = @ + 1,
                              !.output_path = IF saved_to /\ child.flow = "batch"
                                              THEN "path" ELSE @]
    /\ UNCHANGED <<pvVars, qVars, unitVars, env, cli, lc, am, ft>>

\* the 600th second of the child's run passes
ceiling_passes ==
    /\ child.proc \in {"open", "closed"}
    /\ child.age = "within"
    /\ child' = [child EXCEPT !.age = "beyond"]
    /\ UNCHANGED <<pvVars, qVars, unitVars, env, cli, lc, am, ft>>

\* the child closes its output stream and keeps running
child_closes_stdout ==
    /\ child.proc = "open"
    /\ child' = [child EXCEPT !.proc = "closed"]
    /\ UNCHANGED <<pvVars, qVars, unitVars, env, cli, lc, am, ft>>

\* the child ends by itself
child_exits(returncode) ==
    /\ child.proc \in {"open", "closed"}
    /\ child' = [child EXCEPT !.proc = "exited", !.returncode = returncode]
    /\ UNCHANGED <<pvVars, qVars, unitVars, env, cli, lc, am, ft>>

\* process.stdout.readline() returns '': the stream is at its end, the loop
\* is left and process.wait(timeout=600) is called
readline_eof ==
    /\ child.pc = "reading"
    /\ child.proc \in {"closed", "exited"}
    /\ child' = [child EXCEPT !.pc = "waiting"]
    /\ UNCHANGED <<pvVars, qVars, unitVars, env, cli, lc, am, ft>>

\* process.wait returns the return code of a child that has ended
wait_returns ==
    /\ child.pc = "waiting"
    /\ child.proc = "exited"
    /\ IF child.flow = "page"
       THEN /\ child' = [child EXCEPT !.pc = "done",
                                     !.report = IF child.returncode = 0
                                                THEN "success" ELSE "failed"]
            /\ UNCHANGED qVars
       ELSE IF child.returncode = 0 /\ child.output_path # None
       THEN /\ Commit(update_status(items, Files, child.item, "COMPLETED", None,
                                    child.output_path, CleanPlan), CleanPlan)
            /\ child' = [child EXCEPT !.pc = "done", !.report = "success"]
            /\ UNCHANGED <<next_id, mq, cq>>
       ELSE /\ Commit(update_status(items, Files, child.item, "FAILED", "last lines",
                                    None, CleanPlan), CleanPlan)
            /\ child' = [child EXCEPT !.pc = "done", !.report = "failed"]
            /\ UNCHANGED <<next_id, mq, cq>>
    /\ UNCHANGED <<pvVars, unitVars, env, cli, lc, am, ft>>

\* process.wait raises TimeoutExpired after 600 seconds of a child that still
\* runs: process.kill(), the time-out reported, the item of the batch failed
wait_times_out ==
    /\ child.pc = "waiting"
    /\ child.proc = "closed"
    /\ child' = [child EXCEPT !.pc = "done", !.proc = "killed", !.age = "beyond",
                              !.report = "timed out"]
    /\ IF child.flow = "batch"
       THEN /\ Commit(update_status(items, Files, child.item, "FAILED",
                                    "Processing timed out after 10 minutes", None,
                                    CleanPlan), CleanPlan)
            /\ UNCHANGED <<next_id, mq, cq>>
       ELSE UNCHANGED qVars
    /\ UNCHANGED <<pvVars, unitVars, env, cli, lc, am, ft>>

(***************************************************************************)
(* The JSON repair of LLMProcessor._run_llm_json (processor.py).  A        *)
(* response is a sequence of tokens separated by white space: a fence      *)
(* marker (FENCE stands for three backquotes), a brace, a comma, a         *)
(* "key": value pair, a word of prose.                                     *)
(***************************************************************************)
\* number of tokens of a response, in the responses that are enumerated
MaxTokens == 3

Tokens == {"FENCEjson", "FENCE", "{", "}", ",", "kv", "w", "temporary"}

\* longer responses: fenced, fenced with a trailing comma, wrapped in prose,
\* two objects, a trailing comma after two pairs
Samples ==
    {<<"FENCEjson", "{", "kv", "}", "FENCE">>,
     <<"FENCE", "{", "kv", ",", "kv", "}", "FENCE">>,
     <<"FENCEjson", "{", "kv", ",", "}", "FENCE">>,
     <<"w", "{", "kv", ",", "kv", "}", "w">>,
     <<"{", "kv", "}", "w", "{", "kv", "}">>,
     <<"{", "kv", ",", "kv", ",", "}">>,
     <<"w", "{", "kv", ",", ",", "}">>,
     <<"temporary", "{", "kv", "kv", "}">>}

ResponseContents == UNION {[1..n -> Tokens] : n \in 0..MaxTokens} \cup Samples

\* values: a dict with so many keys, a str of so many tokens; no value is None
NoValue == [type |-> None, size |-> 0]
Dict(n) == [type |-> "dict", size |-> n]
Str(content) == [type |-> "str", size |-> Len(content)]

\* bool(value): None, {} and "" are false
Truthy(value) == value.size > 0

\* json.loads: an object is { }, or { pair , pair ... }; nothing else parses
json_loads(text) ==
    LET n == Len(text)
        inner == IF n >= 2 THEN SubSeq(text, 2, n - 1) ELSE <<>>
        members == /\ Len(inner) % 2 = 1
                   /\ \A i \in 1..Len(inner) :
                         inner[i] = (IF i % 2 = 1 THEN "kv" ELSE ",")
    IN IF n >= 2 /\ text[1] = "{" /\ text[n] = "}" /\ (inner = <<>> \/ members)
       THEN [ok |-> TRUE, value |-> Dict((Len(inner) + 1) \div 2)]
       ELSE [ok |-> FALSE, value |-> NoValue]

\* the FENCEjson, FENCE prefixes and the FENCE suffix removed from the stripped text
strip_fence(content) ==
    LET a == IF content # <<>> /\ content[1] = "FENCEjson" THEN Tail(content)
             ELSE IF content # <<>> /\ content[1] = "FENCE" THEN Tail(content)
             ELSE content
    IN IF a # <<>> /\ a[Len(a)] = "FENCE" THEN SubSeq(a, 1, Len(a) - 1) ELSE a

\* cleaned_content.find("{"), cleaned_content.rfind("}"): 0 when not found
Find(text, token) ==
    IF \E i \in 1..Len(text) : text[i] = token
    THEN CHOOSE i \in 1..Len(text) :
            text[i] = token /\ \A j \in 1..(i - 1) : text[j] # token
    ELSE 0
RFind(text, token) ==
    IF \E i \in 1..Len(text) : text[i] = token
    THEN CHOOSE i \in 1..Len(text) :
            text[i] = token /\ \A j \in (i + 1)..Len(text) : text[j] # token
    ELSE 0

\* re.sub of the trailing commas: a comma right before a closing brace is removed
RECURSIVE fix_trailing_commas(_)
fix_trailing_commas(text) ==
    IF text = <<>> THEN <<>>
    ELSE IF Len(text) >= 2 /\ text[1] = "," /\ text[2] = "}"
    THEN fix_trailing_commas(Tail(text))
    ELSE <<text[1]>> \o fix_trailing_commas(Tail(text))

\* the messages of the failures of _run_llm_json and _run_llm_text; the
\* excerpt is content[:300], and a word of it that a retry condition looks
\* for is part of the message
EmptyContentMsg ==
    "GPT-5 returned empty content - possible rate limit or model issue"
NoJsonFoundMsg == "No JSON found in LLM response. Content: {content[:300]}"
ParseFailedMsg(content) ==
    IF \E i \in 1..Len(content) : content[i] = "temporary"
    THEN "Failed to parse LLM JSON response. Original error: {json_err}, Content: {content[:300]: temporary}"
    ELSE "Failed to parse LLM JSON response. Original error: {json_err}, Content: {content[:300]}"

\* an extraction that comes before the fence is stripped
repair_extract_first(content) ==
    LET start == Find(content, "{")
        end == RFind(content, "}")
    IN IF start # 0 /\ end # 0 /\ end > start
       THEN LET json_content == SubSeq(content, start, end)
            IN [ok |-> json_loads(json_content).ok,
                value |-> json_loads(json_content).value,
                step |-> "extract", msg |-> ParseFailedMsg(content)]
       ELSE [ok |-> FALSE, value |-> NoValue, step |-> "none", msg |-> NoJsonFoundMsg]

\* the repair steps after json.loads(content) has failed: the fence stripped,
\* the text from the first { to the last }, the trailing commas removed
repair(content) ==
    LET cleaned_content == strip_fence(content)
        start == Find(cleaned_content, "{")
        end == RFind(cleaned_content, "}")
    IN IF json_loads(cleaned_content).ok
       THEN [ok |-> TRUE, value |-> json_loads(cleaned_content).value,
             step |-> "fence", msg |-> None]
       ELSE IF start # 0 /\ end # 0 /\ end > start
       THEN LET json_content == SubSeq(cleaned_content, start, end)
                fixed_json == fix_trailing_commas(json_content)
            IN IF json_loads(json_content).ok
               THEN [ok |-> TRUE, value |-> json_loads(json_content).value,
                     step |-> "extract", msg |-> None]
               ELSE IF json_loads(fixed_json).ok
               THEN [ok |-> TRUE, value |-> json_loads(fixed_json).value,
                     step |-> "commas", msg |-> None]
               ELSE [ok |-> FALSE, value |-> NoValue, step |-> "none",
                     msg |-> ParseFailedMsg(content)]
       ELSE [ok |-> FALSE, value |-> NoValue, step |-> "none", msg |-> NoJsonFoundMsg]

\* the body of _run_llm_json from the completion's content to the result
parse_response(content) ==
    IF content = <<>>
    THEN [ok |-> FALSE, value |-> NoValue, step |-> "none", msg |-> EmptyContentMsg]
    ELSE IF json_loads(content).ok
    THEN [ok |-> TRUE, value |-> json_loads(content).value, step |-> "as is",
          msg |-> None]
    ELSE repair(content)

(***************************************************************************)
(* The Cache of LLM responses (cache.py) and the calls of the LLMProcessor *)
(* (processor.py), each under llm_retry.                                   *)
(***************************************************************************)
SystemPrompts == {"system"}
UserPrompts == {"prompt"}

\* sha256 of f"{system_prompt}||{user_prompt}||{model}": told apart by the text
hash_prompt(system_prompt, user_prompt, model) ==
    <<system_prompt, "||", user_prompt, "||", model>>

\* imported: `cache = Cache()` has run; enabled: Cache.enabled;
\* empty_is_false: whether bool(self._cache) is False for a diskcache.Cache
\* without entries (the library's __len__, outside this repository);
\* others: the cache directory holds entries other than LLM responses;
\* entries: the llm: entries; model: LLMProcessor.model, None before the
\* processor is constructed; pc, system, user: the call in progress.
\* What the calls did: requests counts the completion requests of the call,
\* request and cache_op tell the setting used from the setting in force,
\* repeat whether the call repeats a completed one, completed which calls
\* have completed since their entry was last removed, step and content the
\* step that gave the result and the response of the run that ended the call.
NoLlm == [imported |-> FALSE, enabled |-> FALSE, empty_is_false |-> FALSE,
          others |-> FALSE, entries |-> {}, model |-> None, pc |-> "idle",
          system |-> None, user |-> None, requests |-> 0, repeat |-> FALSE,
          completed |-> {}, step |-> None, content |-> <<>>,
          request |-> [model |-> None, live |-> None],
          cache_op |-> [enabled |-> TRUE, live |-> TRUE]]

\* not (not self.enabled or not self._cache)
cache_usable(c) ==
    c.enabled /\ ~(c.empty_is_false /\ c.entries = {} /\ ~c.others)

\* Cache.get_llm_response
get_llm_response(c, prompt_hash) ==
    IF ~cache_usable(c) THEN NoValue
    ELSE IF \E entry \in c.entries : entry.key = prompt_hash
    THEN (CHOOSE entry \in c.entries : entry.key = prompt_hash).value
    ELSE NoValue

\* Cache.set_llm_response: the entries afterwards
set_llm_response(c, prompt_hash, response) ==
    IF ~cache_usable(c) THEN c.entries
    ELSE {entry \in c.entries : entry.key # prompt_hash}
         \cup {[key |-> prompt_hash, value |-> response]}

\* except Exception as e: raise LLMProcessingError(f"LLM JSON processing failed: {e}")
LlmJsonFailed(msg) ==
    CASE msg = EmptyContentMsg ->
           "LLM JSON processing failed: GPT-5 returned empty content - possible rate limit or model issue"
      [] msg = NoJsonFoundMsg ->
           "LLM JSON processing failed: No JSON found in LLM response. Content: {content[:300]}"
      [] msg = ParseFailedMsg(<<"temporary">>) ->
           "LLM JSON processing failed: Failed to parse LLM JSON response. Original error: {json_err}, Content: {content[:300]: temporary}"
      [] msg = ParseFailedMsg(<<>>) ->
           "LLM JSON processing failed: Failed to parse LLM JSON response. Original error: {json_err}, Content: {content[:300]}"
      [] msg = "rate limit exceeded" -> "LLM JSON processing failed: rate limit exceeded"
      [] OTHER -> "LLM JSON processing failed: invalid request"

\* except Exception as e: raise LLMProcessingError(f"LLM text processing failed: {e}")
LlmTextFailed(msg) ==
    CASE msg = "rate limit exceeded" -> "LLM text processing failed: rate limit exceeded"
      [] OTHER -> "LLM text processing failed: invalid request"

\* the call makes a completion request with self.model
Requested(c, e) ==
    [c EXCEPT !.requests = @ + 1,
              !.request = [model |-> c.model, live |-> llm_model(e)]]

\* the call goes to the cache
Consulted(c, e) ==
    [c EXCEPT !.cache_op = [enabled |-> c.enabled, live |-> enable_cache(e)]]

\* one run of the body of LLMProcessor._run_llm_json, where the completion
\* request, if one is made, gets this response
_run_llm_json(c, e, response) ==
    LET prompt_hash == hash_prompt(c.system, c.user, c.model)
        cached_response == get_llm_response(c, prompt_hash)
        parsed == IF response.ok THEN parse_response(response.value)
                  ELSE [ok |-> FALSE, value |-> NoValue, step |-> "none",
                        msg |-> response.error.msg]
    IN IF Truthy(cached_response)
       THEN [c |-> [Consulted(c, e) EXCEPT !.step = "cache"],
             result |-> Returns(cached_response)]
       ELSE IF parsed.ok
       THEN [c |-> [Requested(Consulted(c, e), e) EXCEPT
                       !.entries = set_llm_response(c, prompt_hash, parsed.value),
                       !.step = parsed.step],
             result |-> Returns(parsed.value)]
       ELSE [c |-> [Requested(Consulted(c, e), e) EXCEPT !.step = "none"],
             result |-> Raises(Exc("LLMProcessingError", LlmJsonFailed(parsed.msg)))]

\* one run of the body of LLMProcessor._run_llm_text
_run_llm_text(c, e, response) ==
    LET prompt_hash == hash_prompt(c.system, c.user, c.model)
        cached_response == get_llm_response(c, prompt_hash)
    IN IF Truthy(cached_response) /\ cached_response.type = "str"
       THEN [c |-> [Consulted(c, e) EXCEPT !.step = "cache"],
             result |-> Returns(cached_response)]
       ELSE IF response.ok
       THEN [c |-> [Requested(Consulted(c, e), e) EXCEPT
                       !.entries = set_llm_response(c, prompt_hash, Str(response.value)),
                       !.step = "text"],
             result |-> Returns(Str(response.value))]
       ELSE [c |-> [Requested(Consulted(c, e), e) EXCEPT !.step = "none"],
             result |-> Raises(Exc("LLMProcessingError",
                                   LlmTextFailed(response.error.msg)))]

\* the module cache.py is imported: cache = Cache()
ImportCache ==
    /\ ~lc.imported
    /\ \E empty_is_false \in BOOLEAN, others \in BOOLEAN :
          lc' = [lc EXCEPT !.imported = TRUE, !.enabled = enable_cache(env),
                           !.empty_is_false = empty_is_false, !.others = others]
    /\ UNCHANGED <<pvVars, qVars, unitVars, env, cli, child, am, ft>>

\* LLMProcessor.__init__
LLMProcessorInit ==
    /\ lc.imported
    /\ lc.pc = "idle"
    /\ lc.model # llm_model(env)
    /\ lc' = [lc EXCEPT !.model = llm_model(env)]
    /\ UNCHANGED <<pvVars, qVars, unitVars, env, cli, child, am, ft>>

\* a call of _run_llm_json or _run_llm_text enters the wrapper of llm_retry
RunLlmCall(kind, system_prompt, user_prompt) ==
    /\ lc.pc = "idle"
    /\ lc.model # None
    /\ lc' = [lc EXCEPT
                !.pc = kind, !.system = system_prompt, !.user = user_prompt,
                !.requests = 0, !.step = None, !.content = <<>>,
                !.repeat = [kind |-> kind,
                            key |-> hash_prompt(system_prompt, user_prompt, lc.model)]
                              \in lc.completed]
    /\ rt' = [IdleRetry EXCEPT !.pc = "running", !.decorator = "retry_on_conditions"]
    /\ rc' = llm_retry
    /\ UNCHANGED <<pvVars, qVars, rm, env, cli, child, am, ft>>

\* how a run of the body leaves the call: still running, or ended
Attempted(kind, o, r, response) ==
    [o.c EXCEPT
       !.pc = IF r.pc = "running" THEN kind ELSE "idle",
       !.content = IF r.pc # "running" /\ o.c.step # "cache" /\ response.ok
                   THEN response.value ELSE <<>>,
       !.completed = IF r.pc = "returned"
                     THEN @ \cup {[kind |-> kind,
                                   key |-> hash_prompt(o.c.system, o.c.user, o.c.model)]}
                     ELSE @]

\* the wrapper runs _run_llm_json once and handles what it does
RunLlmJsonAttempt(response) ==
    /\ lc.pc = "json"
    /\ LET o == _run_llm_json(lc, env, response)
           r == retry_on_conditions(rt, rc, o.result)
       IN /\ rt' = r
          /\ lc' = Attempted("json", o, r, response)
    /\ UNCHANGED <<pvVars, qVars, rm, rc, env, cli, child, am, ft>>

\* the wrapper runs _run_llm_text once and handles what it does
RunLlmTextAttempt(response) ==
    /\ lc.pc = "text"
    /\ LET o == _run_llm_text(lc, env, response)
           r == retry_on_conditions(rt, rc, o.result)
       IN /\ rt' = r
          /\ lc' = Attempted("text", o, r, response)
    /\ UNCHANGED <<pvVars, qVars, rm, rc, env, cli, child, am, ft>>

\* the 30 days of an entry are over: diskcache drops it
Expire(prompt_hash) ==
    /\ lc.pc = "idle"
    /\ \E entry \in lc.entries : entry.key = prompt_hash
    /\ lc' = [lc EXCEPT
                !.entries = {entry \in @ : entry.key # prompt_hash},
                !.completed = {call \in @ : call.key # prompt_hash}]
    /\ UNCHANGED <<pvVars, qVars, unitVars, env, cli, child, am, ft>>



(***************************************************************************)
(* YouTubeExtractor.fetch_transcript (extractor.py) and the transcript     *)
(* entries of the Cache (cache.py).                                        *)
(***************************************************************************)
\* largest number of segments a source returns
MaxSegments == 2

\* a transcript: a list of so many lines
Lines(n) == [type |-> "list", size |-> n]

\* api.fetch: segments, none included, or an exception
CaptionResults ==
    {Returns(Lines(n)) : n \in 0..MaxSegments}
    \cup {Raises(Exc("NoTranscriptFound", "no transcript"))}

\* _whisper_fallback_transcribe: lines, or a failure (no faster-whisper, no
\* audio, no segments)
WhisperResults ==
    {Returns(Lines(n)) : n \in 1..MaxSegments}
    \cup {Raises(Exc("TranscriptUnavailableError", "Whisper produced no segments"))}

\* the lang_priority argument: not given, one language, no language
LangInputs ==
    {[given |-> FALSE, langs |-> <<>>], [given |-> TRUE, langs |-> <<"es">>],
     [given |-> TRUE, langs |-> <<>>]}

\* if lang_priority is None: lang_priority = ["en", "es"]
lang_priority(lang) == IF lang.given THEN lang.langs ELSE <<"en", "es">>

\* f"transcript:{video_id}"
TranscriptKey(video_id) == <<"transcript:", video_id>>

\* Cache.get_transcript: the stored lines if there are any, else None
get_transcript(c, video_id) ==
    IF ~cache_usable(c) THEN NoValue
    ELSE IF \E entry \in c.entries : entry.key = TranscriptKey(video_id)
    THEN LET cached_data ==
                (CHOOSE entry \in c.entries : entry.key = TranscriptKey(video_id)).value
         IN IF Truthy(cached_data) THEN cached_data ELSE NoValue
    ELSE NoValue

\* Cache.set_transcript: the entries afterwards
set_transcript(c, video_id, transcript) ==
    IF ~cache_usable(c) THEN c.entries
    ELSE {entry \in c.entries : entry.key # TranscriptKey(video_id)}
         \cup {[key |-> TranscriptKey(video_id), value |-> transcript]}

\* pc: where the call is; langs: the languages it tries; k: the one it is at;
\* calls: the sources consulted so far and whether each gave a transcript;
\* sets: what was passed to set_transcript; usable, stored: whether the
\* cache took entries at that moment and whether it holds the result
NoFetch == [pc |-> "idle", video_id |-> None, langs |-> <<>>, k |-> 0, calls |-> <<>>,
            result |-> NoValue, raised |-> NoError, sets |-> <<>>,
            usable |-> FALSE, stored |-> FALSE]

Consult(f, source, ok) == [f EXCEPT !.calls = Append(@, [source |-> source, ok |-> ok])]

\* a fetch that returns the lines of the speech-to-text pass without caching them
Fetched_whisper_uncached(f, c, source, lines) ==
    LET entries == IF source = "whisper" THEN c.entries
                   ELSE set_transcript(c, f.video_id, lines)
    IN [f |-> [Consult(f, source, TRUE) EXCEPT
                  !.pc = "returned", !.result = lines,
                  !.sets = IF source = "whisper" THEN @ ELSE Append(@, lines),
                  !.usable = cache_usable(c),
                  !.stored = [key |-> TranscriptKey(f.video_id), value |-> lines]
                                \in entries],
        entries |-> entries]

\* a source gave lines: cache.set_transcript(video_id, transcript_lines), return
Fetched(f, c, source, lines) ==
    LET entries == set_transcript(c, f.video_id, lines)
    IN [f |-> [Consult(f, source, TRUE) EXCEPT
                  !.pc = "returned", !.result = lines,
                  !.sets = Append(@, lines),
                  !.usable = cache_usable(c),
                  !.stored = [key |-> TranscriptKey(f.video_id), value |-> lines]
                                \in entries],
        entries |-> entries]

\* lines 171-179: the default languages, the cache
fetch_transcript_start(video_id, lang) ==
    /\ lc.imported
    /\ ft.pc \in {"idle", "returned", "raised"}
    /\ LET cached_transcript == get_transcript(lc, video_id)
           f == [NoFetch EXCEPT !.video_id = video_id, !.langs = lang_priority(lang)]
       IN ft' = IF Truthy(cached_transcript)
                THEN [Consult(f, "cache", TRUE) EXCEPT !.pc = "returned",
                                                       !.result = cached_transcript]
                ELSE [Consult(f, "cache", FALSE) EXCEPT !.pc = "client"]
    /\ UNCHANGED <<pvVars, qVars, unitVars, env, cli, lc, child, am>>

\* line 183: YouTubeTranscriptApi(); the outer except leads to the fallback
fetch_transcript_client(built) ==
    /\ ft.pc = "client"
    /\ ft' = [ft EXCEPT !.pc = IF ~built THEN "whisper"
                               ELSE IF ft.langs = <<>> THEN "auto" ELSE "captions",
                        !.k = 1]
    /\ UNCHANGED <<pvVars, qVars, unitVars, env, cli, lc, child, am>>

\* lines 186-207: api.fetch(video_id, languages=[lang_code])
fetch_transcript_language(result) ==
    /\ ft.pc = "captions"
    /\ LET o == Fetched(ft, lc, ft.langs[ft.k], result.value)
       IN IF result.ok
          THEN /\ ft' = o.f
               /\ lc' = [lc EXCEPT !.entries = o.entries]
          ELSE /\ ft' = [Consult(ft, ft.langs[ft.k], FALSE) EXCEPT
                            !.pc = IF ft.k = Len(ft.langs) THEN "auto" ELSE "captions",
                            !.k = @ + 1]
               /\ UNCHANGED lc
    /\ UNCHANGED <<pvVars, qVars, unitVars, env, cli, child, am>>

\* lines 210-229: api.fetch(video_id)
fetch_transcript_auto(result) ==
    /\ ft.pc = "auto"
    /\ LET o == Fetched(ft, lc, "auto", result.value)
       IN IF result.ok
          THEN /\ ft' = o.f
               /\ lc' = [lc EXCEPT !.entries = o.entries]
          ELSE /\ ft' = [Consult(ft, "auto", FALSE) EXCEPT !.pc = "whisper"]
               /\ UNCHANGED lc
    /\ UNCHANGED <<pvVars, qVars, unitVars, env, cli, child, am>>

\* lines 234-247: the speech-to-text fallback, or TranscriptUnavailableError
fetch_transcript_whisper(result) ==
    /\ ft.pc = "whisper"
    /\ LET o == Fetched(ft, lc, "whisper", result.value)
       IN IF result.ok
          THEN /\ ft' = o.f
               /\ lc' = [lc EXCEPT !.entries = o.entries]
          ELSE /\ ft' = [Consult(ft, "whisper", FALSE) EXCEPT
                            !.pc = "raised",
                            !.raised = Exc("TranscriptUnavailableError",
                                           "No transcript available via YouTube API, and Whisper fallback failed")]
               /\ UNCHANGED lc
    /\ UNCHANGED <<pvVars, qVars, unitVars, env, cli, child, am>>

\* the 7 days of a transcript entry are over: diskcache drops it
ExpireTranscript(video_id) ==
    /\ \E entry \in lc.entries : entry.key = TranscriptKey(video_id)
    /\ lc' = [lc EXCEPT !.entries = {entry \in @ : entry.key # TranscriptKey(video_id)}]
    /\ UNCHANGED <<pvVars, qVars, unitVars, env, cli, child, am, ft>>

\* nothing set in the environment, no command, cache, child or thread started
SideInit ==
    /\ env = NoEnv
    /\ cli = IdleCli
    /\ lc = NoLlm
    /\ child = NoChild
    /\ am = NoBulk
    /\ ft = NoFetch

PVInit ==
    /\ state_file = [v \in VideoIds |-> AbsentState]
    /\ notes = {}
    /\ pv = IdlePV
    /\ runs = 0
    /\ state_faults = 0

Init == PVInit /\ QInit /\ UnitInit /\ SideInit

\* a disk on which every save succeeds, and one on which saves may fail
ReliableInit == Init /\ fault_budget = 0
FaultyInit == Init /\ fault_budget = MaxAttemptFaults

PipelineNext ==
    \/ \E url \in PVUrls : process_video_start(url)
    \/ \E result \in MetadataResults, outcome \in SaveOutcomes :
          process_video_metadata(result, outcome)
    \/ \E result \in TranscriptResults, outcome \in SaveOutcomes :
          process_video_transcript(result, outcome)
    \/ \E result \in LlmResults : process_video_llm(result)
    \/ \E written \in BOOLEAN : process_video_write(written)
    \/ process_video_cleanup

SpecPipeline == ReliableInit /\ [][PipelineNext]_vars

\* state files an earlier user of the RecoveryManager may have left behind
LeftoverFiles ==
    LET m == save_metadata(AbsentState, "meta1", "ok")
        t == save_transcript(m, "lines1", "ok")
        c == save_chunks_processed(t, "lines1", "partials1", "ok")
    IN {AbsentState, t, c, save_extracted_content(t, "content1", "ok")}

\* process_video called where such files exist
LeftoverInit ==
    /\ \E f \in LeftoverFiles : state_file = [v \in VideoIds |-> f]
    /\ notes = {}
    /\ pv = IdlePV
    /\ runs = 0
    /\ state_faults = 0
    /\ QInit
    /\ fault_budget = 0
    /\ UnitInit
    /\ SideInit

SpecLeftover == LeftoverInit /\ [][PipelineNext]_vars

\* calls of functions under retry_with_backoff and retry_on_conditions
RetryNext ==
    \/ \E cfg \in BackoffConfigs : BackoffCall(cfg)
    \/ \E cfg \in ConditionConfigs : ConditionsCall(cfg)
    \/ \E result \in FuncResults, random \in Randoms : BackoffAttempt(result, random)
    \/ \E result \in FuncResults : ConditionsAttempt(result)

SpecRetry == ReliableInit /\ [][RetryNext]_vars

\* the process command under every setting of the model and the API keys
CliNext ==
    \/ \E value \in ModelNames \cup {None} : SetEnv("LLM_MODEL", value)
    \/ \E value \in {None, "", "sk-1"} : SetEnv("OPENAI_API_KEY", value)
    \/ \E value \in {None, "sk-2"} : SetEnv("ANTHROPIC_API_KEY", value)
    \/ \E urls \in UrlLists, dry_run \in BOOLEAN : process_start(urls, dry_run)
    \/ \E result \in AllVideoResults : process_single(result)
    \/ \E result \in AllVideoResults : process_videos_pass(result)
    \/ process_videos_return

SpecCli == ReliableInit /\ [][CliNext]_vars

\* pasted lists added to a queue whose items are also removed
BulkNext ==
    \/ \E urls \in LineLists, category \in CategoryInputs :
          AddMultiple(urls, category, CleanPlan)
    \/ \E item_id \in ItemIds : Remove(item_id, CleanPlan)

SpecBulk == ReliableInit /\ [][BulkNext]_vars

\* the console's calls that run a child, with children that print, close
\* their output and end when they like; the console's own steps and the
\* passing of time are not held up for ever
ChildNext ==
    \/ /\ next_id <= MaxDrainAdds
       /\ \E url \in UrlInputs : Add(url, None, CleanPlan)
    \/ process_video_popen
    \/ \E item_id \in ItemIds : process_video_with_cli_popen(item_id)
    \/ \E saved_to \in BOOLEAN : readline_line(saved_to)
    \/ ceiling_passes
    \/ child_closes_stdout
    \/ \E returncode \in {0, 1} : child_exits(returncode)
    \/ readline_eof
    \/ wait_returns
    \/ wait_times_out

SpecChild ==
    /\ ReliableInit
    /\ [][ChildNext]_vars
    /\ WF_vars(readline_eof)
    /\ WF_vars(wait_returns)
    /\ WF_vars(wait_times_out)
    /\ WF_vars(ceiling_passes)

\* the analysis call on every short response and on the samples
JsonNext ==
    \/ ImportCache
    \/ LLMProcessorInit
    \/ RunLlmCall("json", "system", "prompt")
    \/ \E content \in ResponseContents : RunLlmJsonAttempt(Returns(content))

SpecJson == ReliableInit /\ [][JsonNext]_vars

\* responses that are empty, an empty object, an object, or an error
FewResponses ==
    {Returns(<<>>), Returns(<<"{", "}">>), Returns(<<"{", "kv", "}">>),
     Raises(Exc("Exception", "invalid request"))}

\* the calls of a processor while the environment changes and entries expire
LlmNext ==
    \/ \E value \in {None, "false"} : SetEnv("ENABLE_CACHE", value)
    \/ \E value \in {None, "claude-3-haiku"} : SetEnv("LLM_MODEL", value)
    \/ ImportCache
    \/ LLMProcessorInit
    \/ \E kind \in {"json", "text"}, system_prompt \in SystemPrompts,
          user_prompt \in UserPrompts : RunLlmCall(kind, system_prompt, user_prompt)
    \/ \E response \in FewResponses : RunLlmJsonAttempt(response)
    \/ \E response \in FewResponses : RunLlmTextAttempt(response)
    \/ \E system_prompt \in SystemPrompts, user_prompt \in UserPrompts,
          model \in ModelNames :
          Expire(hash_prompt(system_prompt, user_prompt, model))

SpecLlm == ReliableInit /\ [][LlmNext]_vars

\* fetch_transcript called again and again while entries expire
FetchNext ==
    \/ \E value \in {None, "false"} : SetEnv("ENABLE_CACHE", value)
    \/ ImportCache
    \/ \E video_id \in VideoIds, lang \in LangInputs : fetch_transcript_start(video_id, lang)
    \/ \E built \in BOOLEAN : fetch_transcript_client(built)
    \/ \E result \in CaptionResults : fetch_transcript_language(result)
    \/ \E result \in CaptionResults : fetch_transcript_auto(result)
    \/ \E result \in WhisperResults : fetch_transcript_whisper(result)
    \/ \E video_id \in VideoIds : ExpireTranscript(video_id)

SpecFetch == ReliableInit /\ [][FetchNext]_vars

\* the checkpoint calls of the recovery manager in any order
RecoveryNext ==
    \/ \E v \in VideoIds, metadata \in Metas : SaveMetadata(v, metadata)
    \/ \E v \in VideoIds, transcript \in Transcripts : SaveTranscript(v, transcript)
    \/ \E v \in VideoIds, transcript \in Transcripts, partials \in Partials :
          SaveChunksProcessed(v, transcript, partials)
    \/ \E v \in VideoIds, content \in Contents : SaveExtractedContent(v, content)
    \/ \E v \in VideoIds : CompleteProcessing(v)

SpecRecovery == ReliableInit /\ [][RecoveryNext]_vars

\* the queue's operations called one after another, on a disk that may fail
QueueNext ==
    \/ \E url \in UrlInputs, category \in CategoryInputs, plan \in Plans :
          Add(url, category, plan)
    \/ \E item_id \in ItemIds, plan \in Plans : Remove(item_id, plan)
    \/ \E status_filter \in QueueStatus \cup {None}, plan \in Plans :
          Clear(status_filter, plan)
    \/ \E item_id \in ItemIds, plan \in Plans : MoveUp(item_id, plan)
    \/ \E item_id \in ItemIds, plan \in Plans : MoveDown(item_id, plan)
    \/ \E item_id \in ItemIds, call \in StatusCalls, plan \in Plans :
          UpdateStatus(item_id, call, plan)
    \/ \E item_id \in ItemIds, plan \in Plans : UpdateMetadata(item_id, plan)

SpecQueue == FaultyInit /\ [][QueueNext]_vars

\* process_queue and the console's controls, on a disk that does not fail
DrainNext ==
    \/ /\ next_id <= MaxDrainAdds
       /\ \E url \in UrlInputs, category \in CategoryInputs : Add(url, category, CleanPlan)
    \/ \E item_id \in ItemIds : Remove(item_id, CleanPlan)
    \/ \E status_filter \in {"COMPLETED", "FAILED"} : Clear(status_filter, CleanPlan)
    \/ \E item_id \in ItemIds : MoveUp(item_id, CleanPlan)
    \/ \E item_id \in ItemIds : MoveDown(item_id, CleanPlan)
    \/ \E item_id \in ItemIds : Retry(item_id, CleanPlan)
    \/ \E stop_on_error \in BOOLEAN : process_queue_start(stop_on_error)
    \/ process_queue_mark(CleanPlan)
    \/ \E in_callback \in BOOLEAN : process_queue_raises(in_callback, "error")
    \/ process_queue_complete(CleanPlan)
    \/ process_queue_fail(CleanPlan)

SpecDrain == ReliableInit /\ [][DrainNext]_vars

\* process_queue alone: the queue is changed by others only between drains
Quiet == mq.pc \in {"idle", "done", "raised"}

SoloNext ==
    \/ /\ Quiet
       /\ next_id <= MaxDrainAdds
       /\ \E url \in UrlInputs, category \in CategoryInputs : Add(url, category, CleanPlan)
    \/ /\ Quiet
       /\ \E item_id \in ItemIds : Remove(item_id, CleanPlan)
    \/ /\ Quiet
       /\ \E item_id \in ItemIds : Retry(item_id, CleanPlan)
    \/ \E stop_on_error \in BOOLEAN : process_queue_start(stop_on_error)
    \/ process_queue_mark(CleanPlan)
    \/ \E in_callback \in BOOLEAN, msg \in ErrorMessages :
          process_queue_raises(in_callback, msg)
    \/ process_queue_complete(CleanPlan)
    \/ process_queue_fail(CleanPlan)

SpecSolo == ReliableInit /\ [][SoloNext]_vars

\* the console's drain loop with nothing added or retried while it runs
Looping == cq.pc \notin {"idle", "crashed"}

LoopNext ==
    \/ /\ ~Looping
       /\ next_id <= MaxDrainAdds
       /\ \E url \in UrlInputs, category \in CategoryInputs : Add(url, category, CleanPlan)
    \/ /\ ~Looping
       /\ \E item_id \in ItemIds : Retry(item_id, CleanPlan)
    \/ \E item_id \in ItemIds : Remove(item_id, CleanPlan)
    \/ console_drain_start
    \/ console_drain_poll
    \/ console_drain_meta_fails
    \/ console_drain_meta(CleanPlan)
    \/ process_video_with_cli_mark(CleanPlan)
    \/ \E succeeded \in BOOLEAN : process_video_with_cli_child(succeeded, CleanPlan)
    \/ process_video_with_cli_timeout(CleanPlan)
    \/ process_video_with_cli_error
    \/ process_video_with_cli_fail(CleanPlan)

SpecLoop == ReliableInit /\ [][LoopNext]_vars

\* the console's drain beside process_queue, with the console's controls
ConsoleNext ==
    \/ /\ next_id <= MaxDrainAdds
       /\ \E url \in UrlInputs, category \in CategoryInputs : Add(url, category, CleanPlan)
    \/ \E item_id \in ItemIds : Remove(item_id, CleanPlan)
    \/ \E item_id \in ItemIds : MoveUp(item_id, CleanPlan)
    \/ \E item_id \in ItemIds : Retry(item_id, CleanPlan)
    \/ process_queue_start(FALSE)
    \/ process_queue_mark(CleanPlan)
    \/ process_queue_raises(FALSE, "error")
    \/ process_queue_complete(CleanPlan)
    \/ process_queue_fail(CleanPlan)
    \/ console_drain_start
    \/ console_drain_poll
    \/ console_drain_meta_fails
    \/ console_drain_meta(CleanPlan)
    \/ process_video_with_cli_mark(CleanPlan)
    \/ \E succeeded \in BOOLEAN : process_video_with_cli_child(succeeded, CleanPlan)
    \/ process_video_with_cli_timeout(CleanPlan)
    \/ process_video_with_cli_error
    \/ process_video_with_cli_fail(CleanPlan)

SpecConsole == ReliableInit /\ [][ConsoleNext]_vars

\* number of items in the queue.json a queue is constructed on
MaxLoaded == 3

\* the URL of the item with this id in a loaded queue.json
UrlOf(id) == IF id = 2 THEN "https://www.youtube.com/watch?v=bbb" ELSE "https://youtu.be/aaa"

\* the queue.json documents a queue can be constructed on: items with
\* distinct ids, in any order and any status
LoadedLists ==
    LET Records == {[QueueItem(id, UrlOf(id), None) EXCEPT !.status = st] :
                        id \in ItemIds, st \in QueueStatus}
    IN UNION {{l \in [1..n -> Records] :
                  \A i, j \in 1..n : i # j => l[i].id # l[j].id} : n \in 0..MaxLoaded}

\* ProcessingQueue.__init__ on a directory that holds a queue.json
LoadedInit ==
    /\ PVInit
    /\ \E l \in LoadedLists : queue_file = Document(l)
    /\ items = _load(queue_file)
    /\ temp_file = AbsentFile
    /\ save_seen = {}
    /\ next_id = MaxAdds + 1
    /\ fault_budget = 0
    /\ mq = IdleDrain
    /\ cq = IdleConsole
    /\ UnitInit
    /\ SideInit

\* the reorder controls on a loaded queue
MovesNext ==
    \/ \E item_id \in ItemIds \cup {NoId} : MoveUp(item_id, CleanPlan)
    \/ \E item_id \in ItemIds \cup {NoId} : MoveDown(item_id, CleanPlan)

SpecMoves == LoadedInit /\ [][MovesNext]_vars

(***************************************************************************)
(* Claims about process_video and its recovery state (SpecPipeline).       *)
(***************************************************************************)
\* C1: a run that starts with a transcript_fetched checkpoint left by a
\* failed run of the same video id does not fail in its transcript stage:
\* when the transcript fetch fails, the checkpointed transcript is used and
\* the run goes on to the LLM stage.
C1_ResumeWithCheckpointedTranscript ==
    (pv.pc = "failed" /\ pv.stage = "transcript") => pv.start_step # "transcript_fetched"

\* C2: the recovery state of a video is deleted only by the cleanup step of a
\* call of process_video for that video whose note is already written, and
\* the step in which a call fails leaves every state file as it was.
C2_StateClearedOnlyAfterNoteWritten ==
    [][/\ \A v \in VideoIds :
            (state_file[v].kind # "absent" /\ state_file'[v].kind = "absent")
               => /\ pv.pc = "cleanup" /\ pv'.pc = "done"
                  /\ pv.video_id = v
                  /\ pv.meta \in notes
       /\ (pv.pc # "failed" /\ pv'.pc = "failed") => state_file' = state_file]_vars

\* C2 witness: a call that found the state file a failed call had left has
\* written its note and deleted the state file.
C2_Witness ==
    /\ pv.pc = "done"
    /\ pv.start_step # None
    /\ pv.meta \in notes
    /\ state_file[pv.video_id].kind = "absent"

\* C3: when the metadata fetch succeeds and the transcript fetch fails with
\* nothing to recover, process_video raises transcript-unavailable and the
\* state file holds step metadata_fetched, so can_recover_from says true.
C3_TranscriptUnavailableRaised ==
    (pv.pc = "failed" /\ pv.stage = "transcript" /\ state_faults = 0)
       => /\ pv.error = "TranscriptUnavailableError"
          /\ state_file[pv.video_id].step = "metadata_fetched"
          /\ can_recover_from(state_file[pv.video_id], "metadata_fetched")

(***************************************************************************)
(* Claims about the queue's operations (SpecQueue).                        *)
(***************************************************************************)
\* the list holds an item with this URL whose status is not failed
HoldsLive(its, url) == \E i \in 1..Len(its) : its[i].url = url /\ its[i].status # "FAILED"

\* the inputs of add that pass the URL and category checks
Admissible(url, category) ==
    _validate_youtube_url(Strip(url)) /\ _sanitize_category(category).ok

\* C4 as stated: add(url) is rejected as a duplicate exactly when the queue
\* holds an item with the same URL that is pending, processing or completed;
\* otherwise, for a valid URL and a queue that is not full, the add succeeds
\* and appends one pending item at the end of the list.
C4_DuplicateExactlyWhenLive ==
    \A url \in UrlInputs :
        LET o == add(items, Files, url, None, next_id, CleanPlan)
        IN /\ (o.result = "ValueError: URL already in queue") <=> HoldsLive(items, Strip(url))
           /\ (~HoldsLive(items, Strip(url)) /\ Admissible(url, None) /\ Len(items) < max_size)
                 => /\ o.result = "ok"
                    /\ o.items = Append(items, QueueItem(next_id, Strip(url), None))

\* C4 amended: on a queue that is not full, an add with a valid URL and an
\* acceptable category is rejected as a duplicate exactly when the queue holds
\* an item with the same URL that is not failed (on a full queue it is rejected
\* as full); when it is not rejected it appends one pending item at the end of
\* the list, and returns it unless every attempt of the save fails.
C4_DuplicateWhenNotFull ==
    \A url \in UrlInputs, category \in CategoryInputs, plan \in Plans :
        LET o == add(items, Files, url, category, next_id, plan)
            u == Strip(url)
        IN /\ (o.result = "ValueError: URL already in queue") => HoldsLive(items, u)
           /\ (Admissible(url, category) /\ Len(items) < max_size)
                 => IF HoldsLive(items, u)
                    THEN o.result = "ValueError: URL already in queue" /\ o.items = items
                    ELSE /\ o.items = Append(items, QueueItem(next_id, u,
                                                   _sanitize_category(category).value))
                         /\ o.result = (IF PlanCost(plan) = MAX_FILE_SAVE_RETRIES
                                        THEN "IOError" ELSE "ok")
           /\ (Admissible(url, category) /\ Len(items) >= max_size)
                 => o.result = "ValueError: Queue is full" /\ o.items = items

\* C4 witness: a URL whose item had failed was added again, and the new
\* pending item stands at the end of the list.
C4_Witness ==
    \E i \in 1..Len(items) :
        /\ i < Len(items)
        /\ items[i].status = "FAILED"
        /\ items[Len(items)].url = items[i].url
        /\ items[Len(items)].status = "PENDING"
        /\ items[Len(items)].id > items[i].id

\* C5 as stated: the queue never holds more than max_size items, and every
\* add issued while it holds max_size items fails with the "full" error and
\* adds nothing.
C5_FullQueueRejectsEveryAdd ==
    /\ Len(items) <= max_size
    /\ Len(items) = max_size =>
          \A url \in UrlInputs, category \in CategoryInputs :
              LET o == add(items, Files, url, category, next_id, CleanPlan)
              IN o.result = "ValueError: Queue is full" /\ o.items = items

\* C5 amended: the queue never holds more than max_size items; an add issued
\* while it holds max_size items adds nothing and raises, with the "full"
\* error when its URL is valid and its category acceptable, and with the
\* error of the URL or category check otherwise.
C5_FullQueueAddsNothing ==
    /\ Len(items) <= max_size
    /\ Len(items) = max_size =>
          \A url \in UrlInputs, category \in CategoryInputs, plan \in Plans :
              LET o == add(items, Files, url, category, next_id, plan)
              IN /\ o.items = items
                 /\ ~o.saved
                 /\ o.result = (IF ~_validate_youtube_url(Strip(url))
                                THEN "ValueError: Invalid YouTube URL"
                                ELSE IF ~_sanitize_category(category).ok
                                THEN "ValueError: Invalid category"
                                ELSE "ValueError: Queue is full")

\* C5 witness: adds have filled the queue to max_size items, and a caller
\* can still issue a further add.
C5_Witness ==
    /\ Len(items) = max_size
    /\ next_id = max_size + 1
    /\ next_id <= MaxAdds

\* the outcomes the queue's operations can have in the current state
ApiOutcomes ==
    {add(items, Files, url, category, next_id, plan) :
        url \in UrlInputs, category \in CategoryInputs, plan \in Plans}
    \cup {remove(items, Files, item_id, plan) : item_id \in ItemIds, plan \in Plans}
    \cup {clear(items, Files, status_filter, plan) :
            status_filter \in QueueStatus \cup {None}, plan \in Plans}
    \cup {move_up(items, Files, item_id, plan) : item_id \in ItemIds, plan \in Plans}
    \cup {move_down(items, Files, item_id, plan) : item_id \in ItemIds, plan \in Plans}
    \cup {update_metadata(items, Files, item_id, "title", "channel", plan) :
            item_id \in ItemIds, plan \in Plans}

\* C6: after every queue operation that returns successfully, the persisted
\* document lists exactly the in-memory items, in order, with the same ids and
\* statuses, and no temp file is left beside it.
C6_DiskMatchesMemoryAfterSuccess ==
    \A o \in ApiOutcomes :
        ~Raised(o.result) => (_load(o.file) = o.items /\ o.temp = AbsentFile)

\* C7: queue.json is never a partially written document: during and after
\* every save it is either the previous document or the new one, also when
\* an attempt fails midway and when every attempt fails.
C7_TargetNeverTorn ==
    /\ queue_file.kind # "torn"
    /\ save_seen \subseteq {"previous", "new"}

\* C7 witness: every attempt of the last save failed, one of them midway
\* through writing, and queue.json still holds the previous document.
C7_Witness ==
    /\ save_seen = {"previous"}
    /\ temp_file.kind = "torn"
    /\ queue_file.kind = "doc"
    /\ _load(queue_file) # items

(***************************************************************************)
(* Claims about the drains (SpecDrain, SpecConsole).                       *)
(***************************************************************************)
\* no item that precedes the item with this id in the list is pending
NoPendingBefore(its, item_id) ==
    \A k \in 1..Len(its) :
        its[k].id = item_id => \A j \in 1..(k - 1) : its[j].status # "PENDING"

\* the item with this id is the first pending item of the list
FirstPending(its, item_id) ==
    /\ \E k \in 1..Len(its) : its[k].id = item_id /\ its[k].status = "PENDING"
    /\ NoPendingBefore(its, item_id)

\* ids is the list of the ids of the pending items, in list order
PendingInOrder(its, ids) ==
    /\ \A k \in 1..Len(its) :
          its[k].status = "PENDING" <=> \E n \in 1..Len(ids) : ids[n] = its[k].id
    /\ \A n \in 1..Len(ids) : \E k \in 1..Len(its) : its[k].id = ids[n]
    /\ \A m, n \in 1..Len(ids) :
          m < n => IndexOfId(its, ids[m]) < IndexOfId(its, ids[n])

\* C8 as stated: get_next_pending returns the first pending item in list
\* order, and no drain starts an item while an item that precedes it in the
\* list, as it is at that moment, is pending.
C8_NoDrainStartsPastAPendingItem ==
    [][/\ get_next_pending(items) # 0
             => FirstPending(items, items[get_next_pending(items)].id)
       /\ (mq.pc = "mark" /\ mq'.pc = "work") => NoPendingBefore(items, mq.snap[mq.i])
       /\ (cq.pc = "mark" /\ cq'.pc = "work") => NoPendingBefore(items, cq.cur)]_vars

\* C8 amended: get_next_pending returns the first pending item in list order
\* (nothing when no item is pending); the console's loop picks at each poll
\* the first pending item of the list as it is at the poll; process_queue
\* takes the pending items in the list order at the start of the call and
\* starts them one by one in that order.
C8_DrainsFollowTheOrderTheyRead ==
    [][/\ IF \E k \in 1..Len(items) : items[k].status = "PENDING"
          THEN /\ get_next_pending(items) # 0
               /\ FirstPending(items, items[get_next_pending(items)].id)
          ELSE get_next_pending(items) = 0
       /\ (cq.pc = "poll" /\ cq'.pc \in {"meta", "mark"}) => FirstPending(items, cq'.cur)
       /\ (mq.pc \in {"idle", "done", "raised"} /\ mq' # mq)
             => /\ PendingInOrder(items, mq'.snap)
                /\ mq'.i = (IF mq'.snap = <<>> THEN 0 ELSE 1)
       /\ (mq.pc \notin {"idle", "done", "raised"} /\ mq' # mq)
             => /\ mq'.snap = mq.snap
                /\ mq'.i \in {mq.i, mq.i + 1}
                /\ mq'.i = mq.i + 1 => mq.pc \in {"work", "fail"}
       /\ (mq.pc = "mark" /\ mq'.pc = "work")
             => \E k \in 1..Len(items) :
                   /\ items[k].id = mq.snap[mq.i]
                   /\ items' = [items EXCEPT ![k].status = "PROCESSING"]]_vars

\* C8 witness: the second item was moved to the front of the list and the
\* console's loop started it while the first item, now behind it, is pending.
C8_Witness ==
    /\ cq.pc = "work"
    /\ Len(items) = 2
    /\ items[1].id = 2 /\ cq.cur = 2
    /\ items[1].status = "PROCESSING"
    /\ items[2].status = "PENDING"
    /\ mq.pc = "idle"

\* the ids in a list of ids
Range(ids) == {ids[k] : k \in 1..Len(ids)}

Forward(from, to) ==
    \/ from = to
    \/ <<from, to>> \in {<<"PENDING", "PROCESSING">>, <<"PROCESSING", "COMPLETED">>,
                        <<"PROCESSING", "FAILED">>, <<"FAILED", "PENDING">>}

\* C10: under any interleaving of the two drains and the console's actions
\* an item's status only moves pending -> processing -> completed or failed,
\* or failed -> pending by a retry.
C10_StatusOnlyMovesForward ==
    [][\A i \in 1..Len(items), j \in 1..Len(items') :
          items[i].id = items'[j].id => Forward(items[i].status, items'[j].status)]_vars

(***************************************************************************)
(* Claims about reordering (SpecMoves).                                    *)
(***************************************************************************)
\* its and moved differ exactly by the exchange of positions k and k + 1
AdjacentSwap(its, moved, k) ==
    /\ Len(moved) = Len(its)
    /\ moved[k] = its[k + 1]
    /\ moved[k + 1] = its[k]
    /\ \A j \in 1..Len(its) : j \notin {k, k + 1} => moved[j] = its[j]

\* C11: move_down(id) on an item that is not last followed by move_up(id)
\* restores the order; move_up on the first item, move_down on the last and
\* either on an unknown id return false and change nothing; a successful
\* move exchanges two adjacent items and changes nothing else.
C11_MovesAreAdjacentSwaps ==
    \A id \in ItemIds \cup {NoId} :
        LET k == IF \E i \in 1..Len(items) : items[i].id = id
                 THEN CHOOSE i \in 1..Len(items) : items[i].id = id
                 ELSE 0
            d == move_down(items, Files, id, CleanPlan)
            u == move_up(items, Files, id, CleanPlan)
            back == move_up(d.items, [file |-> d.file, temp |-> d.temp], id, CleanPlan)
        IN /\ (k = 0 \/ k = 1) => (u.result = "False" /\ u.items = items /\ ~u.saved)
           /\ (k = 0 \/ k = Len(items)) => (d.result = "False" /\ d.items = items /\ ~d.saved)
           /\ (k > 1) => (u.result = "True" /\ AdjacentSwap(items, u.items, k - 1))
           /\ (k > 0 /\ k < Len(items))
                 => /\ d.result = "True"
                    /\ AdjacentSwap(items, d.items, k)
                    /\ back.result = "True"
                    /\ back.items = items

\* C11 witness: a move has been made and saved on a queue of three items,
\* the middle one of which can go both ways.
C11_Witness ==
    /\ Len(items) = 3
    /\ save_seen = {"new"}
    /\ queue_file = Document(items)
    /\ move_down(items, Files, items[2].id, CleanPlan).result = "True"

\* the steps at or before a saved step, written out
StepsUpTo(saved_step) ==
    CASE saved_step = "metadata_fetched" -> {"metadata_fetched"}
      [] saved_step = "transcript_fetched" -> {"metadata_fetched", "transcript_fetched"}
      [] saved_step = "chunks_processed" ->
            {"metadata_fetched", "transcript_fetched", "chunks_processed"}
      [] saved_step = "content_extracted" ->
            {"metadata_fetched", "transcript_fetched", "chunks_processed",
             "content_extracted"}
      [] saved_step = "markdown_generated" ->
            {"metadata_fetched", "transcript_fetched", "chunks_processed",
             "content_extracted", "markdown_generated"}
      [] OTHER -> {}

AllSteps == StepsUpTo("markdown_generated")

\* C12: can_recover_from(step) is true exactly when a saved record exists and
\* its step is the requested step or a later one in the order metadata_fetched,
\* transcript_fetched, chunks_processed, content_extracted, markdown_generated;
\* with no record (no file, or a file that does not parse) it is false for
\* every step.
C12_CanRecoverExactlyUpToSavedStep ==
    \A f \in {state_file[v] : v \in VideoIds} \cup {AbsentState, CorruptState} :
        \A step \in AllSteps :
            can_recover_from(f, step) <=>
                (f.kind = "record" /\ step \in StepsUpTo(f.step))

C12_Witness ==
    \E v \in VideoIds :
        /\ state_file[v].kind = "record"
        /\ state_file[v].step = "chunks_processed"
        /\ can_recover_from(state_file[v], "chunks_processed")
        /\ can_recover_from(state_file[v], "metadata_fetched")
        /\ ~can_recover_from(state_file[v], "content_extracted")
\* can_recover_from answers true for exactly these steps
RecoverableSteps(f) == {step \in AllSteps : can_recover_from(f, step)}

C14_MetadataCarriedForward ==
    \A v \in VideoIds :
        rm[v].meta # None => recover_metadata(state_file[v]) = rm[v].meta
\* C15: when the LLM stage's own call fails, process_video fails in that
\* step whatever the state file holds: the error is the domain error, its
\* message names the operation llm_processing, no note is written and the
\* state file is left as it was.
C15_LlmFailureAlwaysFails ==
    [][(pv.pc = "llm" /\ pv'.pc # "llm" /\ ~pv'.fetched)
          => /\ pv'.pc = "failed"
             /\ pv'.error = "YouTubeExtractorError"
             /\ pv'.stage = "llm_processing"
             /\ notes' = notes
             /\ state_file' = state_file]_vars

\* the LLM stage has failed over a content_extracted checkpoint
C15_Witness ==
    /\ pv.pc = "failed"
    /\ pv.stage = "llm_processing"
    /\ pv.error = "YouTubeExtractorError"
    /\ state_file[pv.video_id].step = "content_extracted"
    /\ recover_extracted_content(state_file[pv.video_id]) # None
\* the call in progress, or ended, is under this decorator
Under(decorator) == rt.pc # "idle" /\ rt.decorator = decorator

LastFailure == rt.failures[Len(rt.failures)]

\* C16: under retry_with_backoff(max_attempts = n) the function is called at
\* most n times; the first success is returned and no call follows it; when
\* n calls have raised retryable exceptions the wrapper raises RetryError
\* carrying the last error's message, after exactly n calls.
C16_AtMostNCallsThenExhausted ==
    Under("retry_with_backoff") =>
        /\ rt.calls <= rc.max_attempts
        /\ rt.pc = "running" => rt.calls = Len(rt.failures)
        /\ rt.pc = "returned" => /\ rt.calls = Len(rt.failures) + 1
                                  /\ rt.value = "value"
                                  /\ rt.raised = NoError
        /\ rt.pc = "raised" => rt.calls = Len(rt.failures)
        /\ (/\ Len(rt.failures) = rc.max_attempts
            /\ \A i \in 1..Len(rt.failures) : IsInstance(rt.failures[i], rc.exceptions))
              => /\ rt.pc = "raised"
                 /\ rt.raised.type = "RetryError"
                 /\ rt.raised.msg = LastFailure.msg
                 /\ rt.raised.attempts = rc.max_attempts
                 /\ rt.calls = rc.max_attempts
        /\ (rt.pc = "raised" /\ rt.raised.type = "RetryError")
              => rt.calls = rc.max_attempts

\* three retryable failures under max_attempts = 3
C16_Witness ==
    /\ Under("retry_with_backoff")
    /\ rc.max_attempts = 3
    /\ rt.pc = "raised"
    /\ rt.calls = 3
    /\ rt.raised = RetryError(3, Exc("ConnectionError", "connection timeout"))
    /\ rc.exceptions = {"ConnectionError"}

\* C17: under retry_with_backoff an exception whose type is not retryable
\* ends the call where it first occurs: it is raised as it is, no sleep and no
\* call follows it, also when retryable failures came before it.
C17_NonRetryablePropagatesAtOnce ==
    Under("retry_with_backoff") =>
        \A i \in 1..Len(rt.failures) :
            ~IsInstance(rt.failures[i], rc.exceptions)
               => /\ i = Len(rt.failures)
                  /\ rt.pc = "raised"
                  /\ rt.raised = rt.failures[i]
                  /\ rt.calls = i
                  /\ Len(rt.sleeps) = i - 1

\* a ValueError after a retried ConnectionError
C17_Witness ==
    /\ Under("retry_with_backoff")
    /\ rc.exceptions = {"ConnectionError"}
    /\ rc.max_attempts = 3
    /\ rt.failures = <<Exc("ConnectionError", "connection timeout"),
                       Exc("ValueError", "invalid request")>>
    /\ rt.pc = "raised"
    /\ rt.raised = Exc("ValueError", "invalid request")

\* the messages each named condition matches, written out
MatchedBy(conditions) ==
    UNION {CASE name = "is_network_error" -> {"connection timeout"}
             [] name = "is_api_rate_limit" -> {"rate limit exceeded"}
             [] name = "is_temporary_api_error" -> {"503 service unavailable"}
             [] name = "is_gpt5_empty_response" -> {"empty content"}
             [] OTHER -> {"empty content", "rate limit exceeded"} : name \in conditions}

\* C18: under retry_on_conditions the function is called again only after an
\* error that a condition matches and while attempts remain; when the wrapper
\* gives up it raises RetryError if the last error matches a condition, and
\* otherwise the last error as it is, with no further call.
C18_RetriedOnlyWhenAConditionMatches ==
    Under("retry_on_conditions") =>
        /\ rt.calls <= rc.max_attempts
        /\ (rt.pc = "running" /\ rt.failures # <<>>)
              => /\ LastFailure.msg \in MatchedBy(rc.conditions)
                 /\ Len(rt.failures) < rc.max_attempts
        /\ rt.pc = "raised"
              => /\ rt.calls = Len(rt.failures)
                 /\ IF LastFailure.msg \in MatchedBy(rc.conditions)
                    THEN /\ rt.raised.type = "RetryError"
                         /\ rt.raised.msg = LastFailure.msg
                         /\ rt.calls = rc.max_attempts
                    ELSE rt.raised = LastFailure
        /\ rt.pc = "returned" => rt.calls = Len(rt.failures) + 1

\* an error no condition matches, after a retried one
C18_Witness ==
    /\ Under("retry_on_conditions")
    /\ rc = network_retry
    /\ rt.failures = <<Exc("ConnectionError", "connection timeout"),
                       Exc("ValueError", "invalid request")>>
    /\ rt.pc = "raised"
    /\ rt.raised = Exc("ValueError", "invalid request")
    /\ rt.calls = 2

\* the waits of each configuration, in milliseconds, written out
ExpectedWaits ==
    CASE rc = network_retry -> <<2000, 4000>>
      [] rc = api_retry -> <<5000, 10000, 20000, 40000>>
      [] rc = llm_retry -> <<2000, 4000, 8000, 16000>>
      [] OTHER -> [k \in 1..(rc.max_attempts - 1) |-> IF k = 1 THEN 2000 ELSE 3000]

\* C19: network_retry makes at most 3 attempts and waits 2 s, 4 s; api_retry at
\* most 5 and waits 5, 10, 20, 40 s; llm_retry at most 5 and waits 2, 4, 8,
\* 16 s; every wait is min(initial_delay * 2^k, max_delay), none exceeds
\* max_delay, and there is no wait after the last attempt.
C19_PresetWaits ==
    Under("retry_on_conditions") =>
        /\ rc = network_retry => rt.calls <= 3
        /\ rc = api_retry => rt.calls <= 5
        /\ rc = llm_retry => rt.calls <= 5
        /\ Len(rt.sleeps) <= Len(ExpectedWaits)
        /\ rt.sleeps = SubSeq(ExpectedWaits, 1, Len(rt.sleeps))
        /\ \A k \in 1..Len(rt.sleeps) : rt.sleeps[k] <= rc.max_delay
        /\ rt.pc = "running" => Len(rt.sleeps) = rt.calls
        /\ rt.pc \in {"raised", "returned"} => Len(rt.sleeps) = rt.calls - 1

\* api_retry exhausted: five calls, four waits
C19_Witness ==
    /\ Under("retry_on_conditions")
    /\ rc = api_retry
    /\ rt.pc = "raised"
    /\ rt.calls = 5
    /\ rt.sleeps = <<5000, 10000, 20000, 40000>>
\* C20: when the metadata cannot be fetched and no checkpoint exists, the
\* error that process_video raises to its caller is a VideoNotFoundError.
C20_MetadataFailureIsVideoNotFound ==
    (/\ pv.pc = "failed"
     /\ pv.stage = "metadata"
     /\ ~Loaded(load_state(state_file[pv.video_id])))
        => pv.error = "VideoNotFoundError"
\* the command is inside process_videos, or has come back from it
InProcessVideos == cli.pc = "batch" \/ (cli.pc = "exited" /\ cli.message = "Processed")

\* the paths returned by the calls that succeeded, in the order of the calls
RECURSIVE SucceededPaths(_)
SucceededPaths(outcomes) ==
    IF outcomes = <<>> THEN <<>>
    ELSE IF Head(outcomes).result.ok
    THEN <<Head(outcomes).result.value>> \o SucceededPaths(Tail(outcomes))
    ELSE SucceededPaths(Tail(outcomes))

\* C21: process_videos calls process_video for the URLs one after another in
\* input order, goes on after a URL that fails, never raises because of such
\* a failure, and returns exactly the paths of the URLs that succeeded, in
\* input order.
C21_BatchContinuesPastFailures ==
    InProcessVideos =>
        /\ Len(cli.outcomes) = cli.i
        /\ cli.i <= Len(cli.urls)
        /\ \A k \in 1..Len(cli.outcomes) : cli.outcomes[k].url = cli.urls[k]
        /\ cli.results = SucceededPaths(cli.outcomes)
        /\ Len(cli.errors) + Len(cli.results) = cli.i
        /\ cli.pc = "exited" => Len(cli.outcomes) = Len(cli.urls)

\* three URLs: the first and the last fail, the second succeeds
C21_Witness ==
    /\ cli.pc = "exited"
    /\ cli.message = "Processed"
    /\ Len(cli.urls) = 3
    /\ ~cli.outcomes[1].result.ok
    /\ cli.outcomes[2].result.ok
    /\ ~cli.outcomes[3].result.ok
    /\ cli.results = <<PathOf(cli.urls[2])>>
\* the model names of each family, written out
OllamaNames == {"ollama/llama3", "ollama/gpt-oss"}
OpenAiNames == {"gpt-4o-mini", "GPT-4", "openai/o1", "ollama/gpt-oss"}
AnthropicNames == {"claude-3-haiku", "anthropic/sonnet"}

\* C24: validate accepts every model name that starts with "ollama/" whatever
\* the API keys; otherwise it requires the OpenAI key for a name containing
\* "gpt" or "openai", otherwise the Anthropic key for a name containing
\* "claude" or "anthropic", and rejects every other name as unsupported.
C24_ValidateByModelFamily ==
    LET name == llm_model(env) IN
    IF name \in OllamaNames THEN validate(env) = None
    ELSE IF name \in OpenAiNames
    THEN validate(env) = IF env.OPENAI_API_KEY \in {None, ""}
                         THEN "OPENAI_API_KEY required" ELSE None
    ELSE IF name \in AnthropicNames
    THEN validate(env) = IF env.ANTHROPIC_API_KEY \in {None, ""}
                         THEN "ANTHROPIC_API_KEY required" ELSE None
    ELSE validate(env) = "Unsupported model"

\* C25: the process command ends with status 1 whenever the processing of a
\* URL has failed, with one URL and with several, and with status 0 only
\* after a dry run or when every URL was processed successfully.
C25_ExitStatusOneOnAnyFailure ==
    cli.pc = "exited" =>
        /\ (\E k \in 1..Len(cli.outcomes) : ~cli.outcomes[k].result.ok)
              => cli.exit_status = 1
        /\ cli.exit_status = 0
              => \/ cli.dry_run
                 \/ /\ Len(cli.outcomes) = Len(cli.urls)
                    /\ \A k \in 1..Len(cli.outcomes) : cli.outcomes[k].result.ok

(***************************************************************************)
(* Claims about the console's controls (SpecDrain).                        *)
(***************************************************************************)
\* C27: the retry control of a failed item resets its status to pending and
\* clears its stored error: a step that takes an item from failed to pending
\* leaves the item without an error.
C27_RetryClearsError ==
    [][\A i \in 1..Len(items) :
          (/\ i <= Len(items')
           /\ items'[i].id = items[i].id
           /\ items[i].status = "FAILED"
           /\ items'[i].status = "PENDING")
             => items'[i].error = None]_vars


(***************************************************************************)
(* Claims about add_multiple (SpecBulk).                                   *)
(***************************************************************************)
\* C26: add_multiple silently skips only the lines that add rejects as
\* duplicates: when a line is rejected for another reason (invalid URL,
\* dangerous category, full queue), the call ends with a failure raised to
\* its caller.
C26_OnlyDuplicatesSkipped ==
    \A k \in 1..Len(am.log) :
        am.log[k] \in {"ValueError: Invalid YouTube URL", "ValueError: Invalid category",
                       "ValueError: Queue is full"}
           => am.raised # None


(***************************************************************************)
(* Claims about the console's child process (SpecChild).                   *)
(***************************************************************************)
\* C28: the console never waits on a child indefinitely: a call that has
\* started a child comes back, also when the child keeps its output stream
\* open without finishing.
C28_ConsoleNeverWaitsForever ==
    (child.pc \in {"reading", "waiting"}) ~> (child.pc = "done")


(***************************************************************************)
(* Claims about the JSON repair of the analysis call (SpecJson).           *)
(***************************************************************************)
\* the texts the repair steps hand to json.loads, in the order of the steps
Extracted(text) ==
    IF Find(text, "{") # 0 /\ RFind(text, "}") > Find(text, "{")
    THEN SubSeq(text, Find(text, "{"), RFind(text, "}"))
    ELSE <<>>
Candidates(content) ==
    <<content, strip_fence(content), Extracted(strip_fence(content)),
      fix_trailing_commas(Extracted(strip_fence(content)))>>
StepNames == <<"as is", "fence", "extract", "commas">>
Parsing(content) == {i \in 1..4 : json_loads(Candidates(content)[i]).ok}
FirstParsing(content) ==
    CHOOSE i \in Parsing(content) : \A j \in Parsing(content) : i <= j

\* the analysis call has ended on a response of the completion
JsonCallEnded == lc.pc = "idle" /\ rt.pc \in {"returned", "raised"} /\ lc.step # "cache"
LastLlmFailure == rt.failures[Len(rt.failures)]
HasExcerpt(msg) ==
    msg \in {LlmJsonFailed(NoJsonFoundMsg), LlmJsonFailed(ParseFailedMsg(<<>>)),
             LlmJsonFailed(ParseFailedMsg(<<"temporary">>))}

C22_RepeatedCallMakesNoRequest ==
    (lc.repeat /\ lc.enabled /\ enable_cache(env)) => lc.requests = 0

\* C23: settings are read live: a completion request is made with the model
\* that LLM_MODEL names at that moment, and a cache operation is carried out
\* or skipped as ENABLE_CACHE says at that moment.
C23_SettingsReadLive ==
    /\ lc.request.model = lc.request.live
    /\ lc.cache_op.enabled = lc.cache_op.live


(***************************************************************************)
(* Claims about the queue's lock (SpecDrain).  Each method of the queue    *)
(* holds the lock from its first read to its save and is one step here;    *)
(* process_queue takes and releases the lock once per method it calls.     *)
(***************************************************************************)
\* C30: calls of queue operations made concurrently do not interleave inside
\* one operation's read/mutate/save sequence, and the outcome is that of a
\* serial order: while a process_queue call is between its read of the
\* pending items and its last update, the items it has read and not yet
\* taken are still in the queue, and still pending.
C30_DrainSeesTheItemsItRead ==
    mq.pc \in {"mark", "work", "fail"} =>
        /\ IndexOfId(items, mq.snap[mq.i]) # 0
        /\ \A k \in (mq.i + 1)..Len(mq.snap) :
              /\ IndexOfId(items, mq.snap[k]) # 0
              /\ items[IndexOfId(items, mq.snap[k])].status = "PENDING"

(***************************************************************************)
(* Claims C31..C40.                                                        *)
(***************************************************************************)
\* the outcomes update_status can have in the current state
StatusOutcomes ==
    {update_status(items, Files, item_id, call.status, call.error,
                   call.output_path, plan) :
        item_id \in ItemIds, call \in StatusCalls, plan \in Plans}

\* C38: a queue operation that raises (a rejected add, update_status on an
\* unknown id, or a mutating operation whose save fails on all its attempts)
\* leaves the in-memory item list and queue.json as they were before the call.
C38_RaisingOperationChangesNothing ==
    \A o \in ApiOutcomes \cup StatusOutcomes :
        Raised(o.result) => (o.items = items /\ o.file = queue_file)

\* C40: process_queue never raises because of what happens to an item of its
\* snapshot, removal or clearing by another actor included: it records the
\* outcome, goes on with the next snapshot item and returns its result.
C40_ProcessQueueNeverRaises == mq.pc # "raised"

\* the message an item shows: no error and an empty error read the same
Shown(error) == IF error = None THEN "" ELSE error

\* the status of the item with this id, None when it is not in the list
StatusOfId(its, item_id) ==
    IF IndexOfId(its, item_id) = 0 THEN None ELSE its[IndexOfId(its, item_id)].status

\* what process_queue leaves when it returns: every snapshot item completed
\* or failed, the two returned lists a partition of the snapshot, each failed
\* item carrying the message of its exception
Settled(its, d) ==
    /\ \A k \in 1..Len(d.snap) : StatusOfId(its, d.snap[k]) \in {"COMPLETED", "FAILED"}
    /\ Range(d.completed) \cup Range(d.failed) = Range(d.snap)
    /\ Range(d.completed) \cap Range(d.failed) = {}
    /\ \A k \in 1..Len(d.completed) : StatusOfId(its, d.completed[k]) = "COMPLETED"
    /\ \A k \in 1..Len(d.failed) : StatusOfId(its, d.failed[k]) = "FAILED"

FailedWithMessage(its, d) ==
    \A k \in 1..Len(d.failed) :
        Shown(its[IndexOfId(its, d.failed[k])].error) = d.msgs[k]

\* the steps of one item's status during a drain
DrainSteps ==
    {<<"PENDING", "PROCESSING">>, <<"PROCESSING", "COMPLETED">>,
     <<"PROCESSING", "FAILED">>}

\* C31: when process_queue returns with stop_on_error = false and nobody else
\* changed the queue meanwhile, every snapshot item is completed or failed,
\* each went pending -> processing -> completed or failed, the returned lists
\* partition the snapshot, and an item whose process_func or progress callback
\* raised is marked failed with the exception's message.
C31_DrainSettlesEverySnapshotItem ==
    [][/\ (~Quiet /\ mq'.pc = "done" /\ ~mq.stop_on_error)
            => (Settled(items', mq') /\ FailedWithMessage(items', mq'))
       /\ ~Quiet
            => \A k \in 1..Len(items) :
                  /\ Len(items') = Len(items)
                  /\ items'[k].id = items[k].id
                  /\ items'[k].status # items[k].status
                        => <<items[k].status, items'[k].status>> \in DrainSteps]_vars

\* C32: with nothing added or retried while it runs, the console's drain loop
\* ends, on every path of an iteration, with no item left pending or
\* processing.
C32_ConsoleLoopEndsWithNothingPending ==
    [][(Looping /\ ~Looping')
          => \A k \in 1..Len(items') :
                items'[k].status \notin {"PENDING", "PROCESSING"}]_vars

\* C37: when the console's drain loop and process_queue run at the same time
\* on one queue, no pending item is handed to the processing function by
\* both: they are never at work on the same item.
C37_NoItemProcessedByTwoDrains ==
    ~(mq.pc = "work" /\ cq.pc = "work" /\ mq.snap[mq.i] = cq.cur)

\* C36: at every reachable state of the queue, no two items that are both in
\* a non-failed status (pending, processing or completed) have the same URL.
C36_NoTwoLiveItemsShareAUrl ==
    \A i, j \in 1..Len(items) :
        (i # j /\ items[i].status # "FAILED" /\ items[j].status # "FAILED")
            => items[i].url # items[j].url

\* C39: in every checkpoint state reachable through the save operations,
\* whenever can_recover_from("metadata_fetched") is true recover_metadata()
\* returns a metadata record, and whenever can_recover_from("transcript_fetched")
\* is true recover_transcript() returns a saved transcript.
C39_CanRecoverAgreesWithRecover ==
    \A v \in VideoIds :
        /\ can_recover_from(state_file[v], "metadata_fetched")
              => recover_metadata(state_file[v]) \in Metas
        /\ can_recover_from(state_file[v], "transcript_fetched")
              => recover_transcript(state_file[v]) \in Transcripts

\* the record stored for the video of the current run holds this step and data
StoredIs(step, data) ==
    LET saved_state == load_state(state_file[pv.video_id])
    IN Loaded(saved_state) => (saved_state.step = step /\ saved_state.data = data)

\* C35: after any sequence of checkpoint saves, saves whose write fails
\* included, the record stored for a video holds the step and the data of
\* the most recently completed stage.
C35_CheckpointIsTheLatestStage ==
    /\ pv.pc = "transcript" => StoredIs("metadata_fetched", pv.meta)
    /\ pv.pc \in {"llm", "write", "cleanup"}
          => StoredIs("transcript_fetched", pv.transcript)

\* C34: an empty model response to a call of the processor (analysis or
\* markdown generation) is never returned as the call's result nor stored in
\* the cache: the call is repeated, up to 5 attempts, and fails with
\* retry-exhausted when every attempt is empty.
C34_EmptyResponseNeitherReturnedNorCached ==
    /\ (lc.pc = "idle" /\ rt.pc = "returned" /\ lc.step \notin {None, "cache"})
          => lc.content # <<>>
    /\ \A entry \in lc.entries : entry.value # Str(<<>>)

\* the sources of a fetch_transcript call in the order it may consult them
SourceOrder(f) == <<"cache">> \o f.langs \o <<"auto", "whisper">>

\* the sources the call consulted, in the order it did
Consulted_sources(f) == [i \in 1..Len(f.calls) |-> f.calls[i].source]

\* the call went through the sources in order, without leaving one out,
\* unless the captions client could not be built
WentInOrder(f) ==
    \/ Consulted_sources(f) = SubSeq(SourceOrder(f), 1, Len(f.calls))
    \/ Consulted_sources(f) = <<"cache", "whisper">>

C33_WitnessHit ==
    /\ ft.pc = "returned"
    /\ Consulted_sources(ft) = <<"cache">>
    /\ Truthy(ft.result)
====
